---- MODULE Spec2Model ----
(***************************************************************************)
(* LifeQuest AI backend: goals and their plans, the step-progress state     *)
(* machine, goal completion, the XP ledger and the level curve of           *)
(* backend/main.py and backend/ai.py,                                       *)
(* as request handlers that run concurrently,                              *)
(* each in its own SQLAlchemy session (autoflush off, one transaction per  *)
(* request, READ COMMITTED: every query sees the rows committed so far,    *)
(* the session's own writes become visible to others at db.commit()).      *)
(***************************************************************************)
EXTENDS Integers, FiniteSets, Sequences, TLC

VARIABLES goals, steps, user_steps, reflections, xp_log,
          now, pc, req, sess, resp, overlaps

vars == <<goals, steps, user_steps, reflections, xp_log,
          now, pc, req, sess, resp, overlaps>>

dbvars == <<goals, steps, user_steps, reflections, xp_log>>

\* ---------------------------------------------------------------- bounds
MaxClock == 1
\* How many calls may arrive while another call is still running.
MaxOverlap == 1
\* How many goal_complete entries a (user, goal) may have when a finish call
\* is still made.
MaxBonus == 1
\* The longest JSON list the plan provider answers with.
MaxItems == 2
\* How many deleted steps the ledger may have entries of when a plan is
\* still confirmed.
MaxStale == 1
\* How far the totals given to compute_level_from_xp go above 0 and around
\* the top of the curve.
MaxXp == 150

\* ---------------------------------------------------------------- inputs
Procs == {"p1", "p2"}
Users == {"u1", "u2"}
GoalIds == {"g1"}
\* Step ids a caller may name: the ids of the steps and one that names no step.
StepIds == {s.id : s \in steps} \cup {"sx"}
Texts == {"ta", "tb"}

\* An optional column: None, or a one-element tuple holding the value.
None == <<>>
Some(v) == <<v>>

\* ---------------------------------------------------------------- plans
\* A plan as _parse_steps_from_json leaves it: positions renumbered 1..N.
ParsedPlan ==
  { [id |-> "s1", goal_id |-> "g1", position |-> 1, difficulty |-> "easy"],
    [id |-> "s2", goal_id |-> "g1", position |-> 2, difficulty |-> "medium"],
    [id |-> "s3", goal_id |-> "g1", position |-> 3, difficulty |-> "hard"] }

\* A goal with a single easy step.
SingleStep ==
  { [id |-> "s1", goal_id |-> "g1", position |-> 1, difficulty |-> "easy"] }

\* A two-step plan (easy, hard) after the same renumbering.
ShortPlan ==
  { [id |-> "s1", goal_id |-> "g1", position |-> 1, difficulty |-> "easy"],
    [id |-> "s2", goal_id |-> "g1", position |-> 2, difficulty |-> "hard"] }

\* A three-step plan (hard, hard, medium): 100 XP of step completions.
HardPlan ==
  { [id |-> "s1", goal_id |-> "g1", position |-> 1, difficulty |-> "hard"],
    [id |-> "s2", goal_id |-> "g1", position |-> 2, difficulty |-> "hard"],
    [id |-> "s3", goal_id |-> "g1", position |-> 3, difficulty |-> "medium"] }

\* ---------------------------------------------------------------- queries
\* As GoalOf, without the test of the owner.
GoalOf_AnyUser(u, g) == {x \in goals : x.id = g}

\* The goal query of every handler: by id and owner.
GoalOf(u, g) == {x \in goals : x.id = g /\ x.user_id = u}

StepOf(g, sid) == {s \in steps : s.id = sid /\ s.goal_id = g}

\* As PrevStep, with the comparison of positions turned round.
PrevStep_After(s) ==
  LET above == {t \in steps : t.goal_id = s.goal_id /\ t.position > s.position}
  IN  {t \in above : \A o \in above : o.position <= t.position}

\* As PrevStep, looking at the position just below only.
PrevStep_Exact(s) ==
  {t \in steps : t.goal_id = s.goal_id /\ t.position = s.position - 1}

\* The rows `position < step.position ORDER BY position DESC` puts first.
PrevStep(s) ==
  LET below == {t \in steps : t.goal_id = s.goal_id /\ t.position < s.position}
  IN  {t \in below : \A o \in below : o.position <= t.position}

UserStepRows(u, sid) == {r \in user_steps : r.user_id = u /\ r.step_id = sid}

ReflectionRows(u, sid) == {r \in reflections : r.user_id = u /\ r.step_id = sid}

CompletionXp(u, sid) ==
  {e \in xp_log : e.user_id = u /\ e.reason = "step_complete" /\ e.step_id = sid}

ReflectionXpRows(u, sid) ==
  {e \in xp_log : e.user_id = u /\ e.reason = "reflection" /\ e.step_id = sid}

\* func.sum(XPLog.amount) over a set of ledger entries (0 when there is none).
RECURSIVE SumAmounts(_)
SumAmounts(S) ==
  IF S = {} THEN 0
  ELSE LET e == CHOOSE x \in S : TRUE IN e.amount + SumAmounts(S \ {e})

\* The sequence check of start_step and complete_step: TRUE when the call is
\* let through with the previous step's progress row `pr` (None: no row).
\* As PrevOk, without the test of completed_at.
PrevOk_RowOnly(pr) == pr # None

PrevOk(pr) == pr # None /\ pr[1].completed_at # None

\* The possible results of .first() on a set of rows.
First(S) == IF S = {} THEN {None} ELSE {Some(r) : r \in S}

\* As BaseXp, with 30 XP for a hard step.
BaseXp_Hard30(d) ==
  IF d = "easy" THEN 10
  ELSE IF d = "medium" THEN 20
  ELSE IF d = "hard" THEN 30
  ELSE 10

BaseXp(d) ==
  IF d = "easy" THEN 10
  ELSE IF d = "medium" THEN 20
  ELSE IF d = "hard" THEN 40
  ELSE 10

ReflectionXp == 5

\* ---------------------------------------------------------------- state
NoReq == [op |-> "none"]
NoSess == [isNew |-> FALSE]
\* The call answered by the last step, with its response (NoResp when the
\* last step answered no call).
NoResp == [op |-> "none", user |-> "none", goal |-> "none", step |-> "none",
           status |-> 0, xp_awarded |-> 0]

\* The Goal row create_goal inserts: no plan, not confirmed, not finished.
NewGoal(id, u) ==
  [id |-> id, user_id |-> u, is_confirmed |-> FALSE, ai_plan |-> None,
   completed_at |-> None, completion_summary |-> None]

\* A goal with its steps and no cached plan, as seed_demo.py inserts it; a
\* goal without steps is as create_goal left it.
InitWith(plans) ==
  /\ steps \in plans
  /\ goals = {[NewGoal("g1", "u1") EXCEPT !.is_confirmed = (steps # {})]}
  /\ user_steps = {}
  /\ reflections = {}
  /\ xp_log = {}
  /\ now = 0
  /\ pc = [p \in Procs |-> "idle"]
  /\ req = [p \in Procs |-> NoReq]
  /\ sess = [p \in Procs |-> NoSess]
  /\ resp = NoResp
  /\ overlaps = 0

Init == InitWith({SingleStep})

InitSeq == InitWith({ParsedPlan})

InitSteps == InitWith({ShortPlan})

AllIdle == \A p \in Procs : pc[p] = "idle"

\* The wall clock moves between any two statements.
Tick ==
  /\ now < MaxClock
  /\ now' = now + 1
  /\ resp' = NoResp
  /\ UNCHANGED <<dbvars, pc, req, sess, overlaps>>

\* raise HTTPException: the session is dropped with nothing written.
Fail(p, op, u, g, sid, code) ==
  /\ resp' = [op |-> op, user |-> u, goal |-> g, step |-> sid,
              status |-> code, xp_awarded |-> 0]
  /\ pc' = [pc EXCEPT ![p] = "idle"]
  /\ req' = [req EXCEPT ![p] = NoReq]
  /\ sess' = [sess EXCEPT ![p] = NoSess]
  /\ UNCHANGED overlaps

Reply(p, op, code, xp) ==
  /\ resp' = [op |-> op, user |-> req[p].user, goal |-> req[p].goal,
              step |-> req[p].step.id, status |-> code, xp_awarded |-> xp]
  /\ pc' = [pc EXCEPT ![p] = "idle"]
  /\ req' = [req EXCEPT ![p] = NoReq]
  /\ sess' = [sess EXCEPT ![p] = NoSess]
  /\ UNCHANGED overlaps

\* Ids of the caller's progress rows on the step that are completed when the
\* call arrives (history, read by no handler).
DoneAtBegin(u, sid) == {r.id : r \in {x \in UserStepRows(u, sid) : x.completed_at # None}}

\* ------------------------------------------------- session-side row edits
StartedRow(id, u, sid, t) ==
  [id |-> id, user_id |-> u, step_id |-> sid,
   started_at |-> Some(t), completed_at |-> None, xp_awarded |-> 0]

\* As CompletedRow, leaving started_at unset.
CompletedRow_NoStart(id, u, sid, t) ==
  [id |-> id, user_id |-> u, step_id |-> sid,
   started_at |-> None, completed_at |-> Some(t), xp_awarded |-> 0]

CompletedRow(id, u, sid, t) ==
  [id |-> id, user_id |-> u, step_id |-> sid,
   started_at |-> Some(t), completed_at |-> Some(t), xp_awarded |-> 0]

\* As MarkStarted, without the test of started_at.
MarkStarted_Always(us, t) == [us EXCEPT !.started_at = Some(t)]

MarkStarted(us, t) ==
  IF us.started_at = None THEN [us EXCEPT !.started_at = Some(t)] ELSE us

\* As MarkCompleted, without the test of completed_at.
MarkCompleted_Always(us, t) == [us EXCEPT !.completed_at = Some(t)]

MarkCompleted(us, t) ==
  IF us.completed_at = None THEN [us EXCEPT !.completed_at = Some(t)] ELSE us

\* As AwardsCompletion, without the lookup's result.
AwardsCompletion_Always(existing) == TRUE

AwardsCompletion(existing) == existing = None

\* The UPDATE the unit of work emits at commit: only the attributes the
\* session changed since it loaded the row.
Merge(r, orig, cur) ==
  [r EXCEPT !.started_at = IF cur.started_at # orig.started_at THEN cur.started_at ELSE @,
            !.completed_at = IF cur.completed_at # orig.completed_at THEN cur.completed_at ELSE @,
            !.xp_awarded = IF cur.xp_awarded # orig.xp_awarded THEN cur.xp_awarded ELSE @]

\* A fresh primary key (gen_uuid).  Rows are told apart by their columns, so
\* the key only has to differ from the keys of the rows that agree with the
\* new row on user, step and reason.
NewId(rows) == Cardinality(rows) + 1

WriteUserStep(se) ==
  IF se.isNew THEN user_steps \cup {[se.cur EXCEPT !.id = NewId(UserStepRows(se.cur.user_id, se.cur.step_id))]}
  ELSE {IF r.id = se.orig.id /\ r.user_id = se.orig.user_id /\ r.step_id = se.orig.step_id
        THEN Merge(r, se.orig, se.cur) ELSE r : r \in user_steps}

\* ------------------------------------------------------------ start_step
Open(p, op, u, g, s, isNew, orig, cur) ==
  /\ pc' = [pc EXCEPT ![p] = IF op = "complete" THEN "xp" ELSE "commit"]
  /\ req' = [req EXCEPT ![p] = [op |-> op, user |-> u, goal |-> g, step |-> s]]
  /\ sess' = [sess EXCEPT ![p] =
       [doneAtBegin |-> DoneAtBegin(u, s.id), isNew |-> isNew,
        orig |-> orig, cur |-> cur, award |-> 0]]
  /\ resp' = NoResp
  /\ overlaps' = IF AllIdle THEN overlaps ELSE overlaps + 1

\* The progress row the handler ends up holding in its session: created when
\* the query finds none, otherwise the row found with its timestamp filled in.
LoadUserStep(p, op, u, g, s) ==
  \E f \in First(UserStepRows(u, s.id)) :
    IF f = None
    THEN IF op = "start"
         THEN Open(p, op, u, g, s, TRUE, StartedRow(0, u, s.id, now), StartedRow(0, u, s.id, now))
         ELSE Open(p, op, u, g, s, TRUE, CompletedRow(0, u, s.id, now), CompletedRow(0, u, s.id, now))
    ELSE IF op = "start"
         THEN Open(p, op, u, g, s, FALSE, f[1], MarkStarted(f[1], now))
         ELSE Open(p, op, u, g, s, FALSE, f[1], MarkCompleted(f[1], now))

\* The queries of start_step and complete_step up to the progress row: goal,
\* step, previous step and its progress row, then the caller's own row.  The
\* goal and step tables do not change and a completed row stays completed, so
\* the reads are taken in one step.
Begin(p, op, seq) ==
  /\ pc[p] = "idle"
  /\ IF seq THEN AllIdle ELSE AllIdle \/ overlaps < MaxOverlap
  /\ \E u \in Users, g \in GoalIds, sid \in StepIds :
       IF GoalOf(u, g) = {} THEN Fail(p, op, u, g, sid, 404)
       ELSE IF StepOf(g, sid) = {} THEN Fail(p, op, u, g, sid, 404)
       ELSE \E s \in StepOf(g, sid) : \E ps \in First(PrevStep(s)) :
              IF ps = None THEN LoadUserStep(p, op, u, g, s)
              ELSE \E pr \in First(UserStepRows(u, ps[1].id)) :
                     IF PrevOk(pr) THEN LoadUserStep(p, op, u, g, s)
                     ELSE Fail(p, op, u, g, sid, 400)
  /\ UNCHANGED <<dbvars, now>>

StartBegin(p, seq) == Begin(p, "start", seq)

StartCommit(p) ==
  /\ pc[p] = "commit" /\ req[p].op = "start"
  /\ user_steps' = WriteUserStep(sess[p])
  /\ Reply(p, "start", 200, 0)
  /\ UNCHANGED <<goals, steps, reflections, xp_log, now>>

\* --------------------------------------------------------- complete_step
CompleteBegin(p, seq) == Begin(p, "complete", seq)

\* Step 4 of complete_step: look for a completion entry, award if none.
CompleteXpCheck(p) ==
  /\ pc[p] = "xp" /\ req[p].op = "complete"
  /\ \E e \in First(CompletionXp(req[p].user, req[p].step.id)) :
       IF AwardsCompletion(e)
       THEN sess' = [sess EXCEPT ![p].award = BaseXp(req[p].step.difficulty),
                                 ![p].cur.xp_awarded = @ + BaseXp(req[p].step.difficulty)]
       ELSE UNCHANGED sess
  /\ pc' = [pc EXCEPT ![p] = "commit"]
  /\ resp' = NoResp
  /\ UNCHANGED <<dbvars, now, req, overlaps>>

\* As CompletionEntry, under a reason no reader of the ledger knows.
CompletionEntry_Misnamed(id, u, g, sid, amount) ==
  [id |-> id, user_id |-> u, amount |-> amount, reason |-> "step_completed",
   goal_id |-> g, step_id |-> sid]

CompletionEntry(id, u, g, sid, amount) ==
  [id |-> id, user_id |-> u, amount |-> amount, reason |-> "step_complete",
   goal_id |-> g, step_id |-> sid]

CompleteCommit(p) ==
  /\ pc[p] = "commit" /\ req[p].op = "complete"
  /\ user_steps' = WriteUserStep(sess[p])
  /\ IF sess[p].award > 0
     THEN xp_log' = xp_log \cup
            {CompletionEntry(NewId(CompletionXp(req[p].user, req[p].step.id)), req[p].user, req[p].goal, req[p].step.id, sess[p].award)}
     ELSE UNCHANGED xp_log
  /\ Reply(p, "complete", 200, sess[p].award)
  /\ UNCHANGED <<goals, steps, reflections, now>>

\* -------------------------------------------- create_or_update_reflection
\* As IsNew, taking every reflection for a new one.
IsNew_Always(reflection) == TRUE

IsNew(reflection) == reflection = None

ReflectionRow(id, u, sid, txt) ==
  [id |-> id, user_id |-> u, step_id |-> sid, text |-> txt]

OpenReflection(p, u, g, s, txt, isNew, orig, cur, award) ==
  /\ pc' = [pc EXCEPT ![p] = "commit"]
  /\ req' = [req EXCEPT ![p] =
       [op |-> "reflect", user |-> u, goal |-> g, step |-> s, text |-> txt]]
  /\ sess' = [sess EXCEPT ![p] =
       [doneAtBegin |-> {}, isNew |-> isNew, orig |-> orig, cur |-> cur, award |-> award]]
  /\ resp' = NoResp
  /\ overlaps' = IF AllIdle THEN overlaps ELSE overlaps + 1

ReflectBegin(p, seq) ==
  /\ pc[p] = "idle"
  /\ IF seq THEN AllIdle ELSE AllIdle \/ overlaps < MaxOverlap
  /\ \E u \in Users, g \in GoalIds, sid \in StepIds, txt \in Texts :
       IF GoalOf(u, g) = {} THEN Fail(p, "reflect", u, g, sid, 404)
       ELSE IF StepOf(g, sid) = {} THEN Fail(p, "reflect", u, g, sid, 404)
       ELSE \E s \in StepOf(g, sid) : \E f \in First(ReflectionRows(u, sid)) :
              IF IsNew(f)
              THEN OpenReflection(p, u, g, s, txt, TRUE, ReflectionRow(0, u, sid, txt),
                                  ReflectionRow(0, u, sid, txt), ReflectionXp)
              ELSE OpenReflection(p, u, g, s, txt, FALSE, f[1],
                                  [f[1] EXCEPT !.text = txt], 0)
  /\ UNCHANGED <<dbvars, now>>

\* As ReflectionEntry, with twice the amount.
ReflectionEntry_Doubled(id, u, g, sid, amount) ==
  [id |-> id, user_id |-> u, amount |-> 2 * amount, reason |-> "reflection",
   goal_id |-> g, step_id |-> sid]

ReflectionEntry(id, u, g, sid, amount) ==
  [id |-> id, user_id |-> u, amount |-> amount, reason |-> "reflection",
   goal_id |-> g, step_id |-> sid]

WriteReflection(se) ==
  IF se.isNew THEN reflections \cup {[se.cur EXCEPT !.id = NewId(ReflectionRows(se.cur.user_id, se.cur.step_id))]}
  ELSE {IF /\ r.id = se.orig.id /\ r.user_id = se.orig.user_id
           /\ r.step_id = se.orig.step_id /\ se.cur.text # se.orig.text
        THEN [r EXCEPT !.text = se.cur.text] ELSE r : r \in reflections}

ReflectCommit(p) ==
  /\ pc[p] = "commit" /\ req[p].op = "reflect"
  /\ reflections' = WriteReflection(sess[p])
  /\ IF sess[p].award > 0
     THEN xp_log' = xp_log \cup
            {ReflectionEntry(NewId(ReflectionXpRows(req[p].user, req[p].step.id)), req[p].user, req[p].goal, req[p].step.id, sess[p].award)}
     ELSE UNCHANGED xp_log
  /\ Reply(p, "reflect", 201, 0)
  /\ UNCHANGED <<goals, steps, user_steps, now>>

\* ------------------------------------------------- generate_plan_for_goal
Difficulties == {"easy", "medium", "hard"}

\* The items of the JSON list the provider may answer with: something that is
\* not an object, or an object with a position (0: missing or not a positive
\* integer) and a difficulty ("epic": one the schema rejects).
PlanItems ==
  {[kind |-> "scalar", position |-> 0, difficulty |-> "hard"]}
    \cup {[kind |-> "object", position |-> q, difficulty |-> d] :
            q \in {0, 1, 2}, d \in {"hard", "epic"}}

\* What the provider's message may hold: text that is not JSON, JSON that is
\* not a list, or a list of items; with or without a code fence around it.
PlanContents ==
  {[fenced |-> f, json |-> j] :
     f \in BOOLEAN,
     j \in {[kind |-> "text"], [kind |-> "object"]}
             \cup {[kind |-> "list", items |-> l] :
                     l \in UNION {[1..n -> PlanItems] : n \in 0..MaxItems}}}

\* What a call of the plan provider may come to: the provider is the mock,
\* the call raises, or the message has a content.
PlanOutcomes ==
  {[kind |-> "mock"], [kind |-> "raise"]}
    \cup {[kind |-> "content", content |-> c] : c \in PlanContents}

\* _mock_plan: four steps at positions 1, 2, 5, 6.
MockPlan ==
  << [position |-> 1, difficulty |-> "easy"],
     [position |-> 2, difficulty |-> "medium"],
     [position |-> 5, difficulty |-> "hard"],
     [position |-> 6, difficulty |-> "easy"] >>

StripCodeFences(content) == content.json

\* A missing or non-positive position becomes the item's index in the list.
FixPosition(item, idx) ==
  IF item.position <= 0 THEN [item EXCEPT !.position = idx] ELSE item

\* As ValidItem, accepting any difficulty.
ValidItem_AnyDifficulty(item) == item.kind = "object"

\* GeneratedStep.model_validate accepts the item.
ValidItem(item) == item.kind = "object" /\ item.difficulty \in Difficulties

GeneratedStep(item) == [position |-> item.position, difficulty |-> item.difficulty]

\* list.sort(key=position): stable, so x goes behind the steps of its position.
RECURSIVE InsertByPosition(_, _)
InsertByPosition(x, sorted) ==
  IF sorted = <<>> THEN <<x>>
  ELSE IF Head(sorted).position <= x.position
       THEN <<Head(sorted)>> \o InsertByPosition(x, Tail(sorted))
       ELSE <<x>> \o sorted

RECURSIVE SortByPosition(_)
SortByPosition(list) ==
  IF list = <<>> THEN <<>>
  ELSE InsertByPosition(list[Len(list)], SortByPosition(SubSeq(list, 1, Len(list) - 1)))

Renumber(list) == [i \in 1..Len(list) |-> [list[i] EXCEPT !.position = i]]

\* _parse_steps_from_json: ok is FALSE where the code raises ValueError.
ParseStepsFromJson(json) ==
  IF json.kind # "list" THEN [ok |-> FALSE, steps |-> <<>>]
  ELSE IF \E i \in 1..Len(json.items) : ~ValidItem(json.items[i])
       THEN [ok |-> FALSE, steps |-> <<>>]
       ELSE [ok |-> TRUE,
             steps |-> Renumber(SortByPosition(
                         [i \in 1..Len(json.items) |->
                            GeneratedStep(FixPosition(json.items[i], i))]))]

\* generate_plan_for_goal: the mock plan on every exception, otherwise what
\* the parser returns.
GeneratePlanForGoal(out) ==
  IF out.kind = "mock" \/ out.kind = "raise" THEN MockPlan
  ELSE LET parsed == ParseStepsFromJson(StripCodeFences(out.content))
       IN  IF parsed.ok THEN parsed.steps ELSE MockPlan

\* A call generate_plan_for_goal(...) whose provider comes to `out`, about to
\* run, and the call itself.
PlanCall(out) == [op |-> "generate_plan", outcome |-> out]

InitParse ==
  /\ goals = {} /\ steps = {} /\ user_steps = {} /\ reflections = {} /\ xp_log = {}
  /\ now = 0 /\ overlaps = 0
  /\ \E out \in PlanOutcomes :
       req = [p \in Procs |-> IF p = "p1" THEN PlanCall(out) ELSE NoReq]
  /\ pc = [p \in Procs |-> IF p = "p1" THEN "call" ELSE "idle"]
  /\ sess = [p \in Procs |-> NoSess]
  /\ resp = NoResp

GeneratePlan(p) ==
  /\ pc[p] = "call" /\ req[p].op = "generate_plan"
  /\ resp' = [op |-> "generate_plan", outcome |-> req[p].outcome,
              steps |-> GeneratePlanForGoal(req[p].outcome)]
  /\ pc' = [pc EXCEPT ![p] = "idle"]
  /\ req' = [req EXCEPT ![p] = NoReq]
  /\ UNCHANGED <<goals, steps, user_steps, reflections, xp_log, now, sess, overlaps>>

PlanResponse(op, u, g, plan) ==
  [op |-> op, user |-> u, goal |-> g, status |-> 200, steps |-> plan]

\* As Cached, for regenerate as well.
Cached_AnyOp(op, goal) == goal.ai_plan # None

\* `if goal.ai_plan and "steps" in goal.ai_plan:`, a test generate_goal_plan
\* makes and regenerate_goal_plan does not.
Cached(op, goal) == op = "generate" /\ goal.ai_plan # None

\* generate_goal_plan and regenerate_goal_plan up to the provider: generate
\* answers with the cached plan when there is one, regenerate never does.
PlanBegin(p, op, seq) ==
  /\ pc[p] = "idle"
  /\ IF seq THEN AllIdle ELSE AllIdle \/ overlaps < MaxOverlap
  /\ \E u \in Users, g \in GoalIds :
       IF GoalOf(u, g) = {} THEN Fail(p, op, u, g, "none", 404)
       ELSE \E x \in GoalOf(u, g) :
              IF Cached(op, x)
              THEN /\ resp' = PlanResponse(op, u, g, x.ai_plan[1])
                   /\ UNCHANGED <<pc, req, sess, overlaps>>
              ELSE /\ pc' = [pc EXCEPT ![p] = "provider"]
                   /\ req' = [req EXCEPT ![p] = [op |-> op, user |-> u, goal |-> g]]
                   /\ sess' = [sess EXCEPT ![p] = [goal |-> x]]
                   /\ resp' = NoResp
                   /\ overlaps' = IF AllIdle THEN overlaps ELSE overlaps + 1
  /\ UNCHANGED <<dbvars, now>>

GeneratePlanBegin(p, seq) == PlanBegin(p, "generate", seq)

RegeneratePlanBegin(p, seq) == PlanBegin(p, "regenerate", seq)

\* The provider call comes back; the rest of generate_plan_for_goal, then
\* goal.ai_plan = {"steps": ...} and the commit.
PlanCommitWith(p, outcomes) ==
  /\ pc[p] = "provider" /\ req[p].op \in {"generate", "regenerate"}
  /\ \E out \in outcomes :
       LET plan == GeneratePlanForGoal(out)
       IN  /\ goals' = {IF x.id = sess[p].goal.id /\ Some(plan) # sess[p].goal.ai_plan
                        THEN [x EXCEPT !.ai_plan = Some(plan)] ELSE x : x \in goals}
           /\ resp' = PlanResponse(req[p].op, req[p].user, req[p].goal, plan)
  /\ pc' = [pc EXCEPT ![p] = "idle"]
  /\ req' = [req EXCEPT ![p] = NoReq]
  /\ sess' = [sess EXCEPT ![p] = NoSess]
  /\ UNCHANGED <<steps, user_steps, reflections, xp_log, now, overlaps>>

PlanCommit(p) == PlanCommitWith(p, PlanOutcomes)

\* The provider's answers that parse into the empty plan or a plan of a
\* single step.
ShortAnswers ==
  {out \in PlanOutcomes :
     /\ out.kind = "content"
     /\ ParseStepsFromJson(StripCodeFences(out.content)).ok
     /\ Len(GeneratePlanForGoal(out)) <= 1}

\* As PlanCommit, for a provider that answers with short plans only.
ShortPlanCommit(p) == PlanCommitWith(p, ShortAnswers)

\* ------------------------------------------------------ confirm_goal_plan
StepIdPool == <<"s1", "s2", "s3", "s4", "s5", "s6", "s7", "s8">>

\* Fresh primary keys for Step rows (gen_uuid): ids that no row refers to.
FreshStepIds ==
  SelectSeq(StepIdPool,
            LAMBDA id : /\ \A s \in steps : s.id # id
                        /\ \A r \in user_steps : r.step_id # id
                        /\ \A r \in reflections : r.step_id # id
                        /\ \A e \in xp_log : e.step_id # id)

\* The deleted steps the ledger still has entries of.
StaleStepIds == {e.step_id : e \in xp_log} \ ({s.id : s \in steps} \cup {"none"})

StepRow(id, g, draft) ==
  [id |-> id, goal_id |-> g, position |-> draft.position, difficulty |-> draft.difficulty]

\* As Cascade, deleting no row.
Cascade_Keep(rows, kept) == rows

\* ON DELETE CASCADE on step_id (and the ORM's delete cascade of
\* Step.user_steps): of the rows of a table that refers to steps, those are
\* left whose step is kept.
Cascade(rows, kept) == {r \in rows : \E s \in kept : s.id = r.step_id}

\* confirm_goal_plan: the goal's Step rows are deleted (their progress rows
\* and reflections go with them, ON DELETE CASCADE), one Step row is created
\* per step of the cached plan and the goal is marked confirmed.  The handler
\* reads the goal only and waits for nothing, so it is one step.
ConfirmPlan(p, seq) ==
  /\ pc[p] = "idle"
  /\ IF seq THEN AllIdle ELSE AllIdle \/ overlaps < MaxOverlap
  /\ \E u \in Users, g \in GoalIds :
       IF GoalOf(u, g) = {}
       THEN /\ resp' = [op |-> "confirm", user |-> u, goal |-> g, status |-> 404]
            /\ UNCHANGED dbvars
       ELSE \E x \in GoalOf(u, g) :
              IF x.ai_plan = None
              THEN /\ resp' = [op |-> "confirm", user |-> u, goal |-> g, status |-> 400]
                   /\ UNCHANGED dbvars
              ELSE LET plan == x.ai_plan[1]
                       ids == FreshStepIds
                       kept == {s \in steps : s.goal_id # g}
                       created == {StepRow(ids[i], g, plan[i]) : i \in 1..Len(plan)}
                   IN  /\ Len(ids) >= Len(plan)
                       /\ Cardinality(StaleStepIds) < MaxStale
                       /\ steps' = kept \cup created
                       /\ user_steps' = Cascade(user_steps, kept)
                       /\ reflections' = Cascade(reflections, kept)
                       /\ goals' = {IF y.id = g THEN [y EXCEPT !.is_confirmed = TRUE] ELSE y :
                                      y \in goals}
                       /\ resp' = [op |-> "confirm", user |-> u, goal |-> g, status |-> 200,
                                   steps |-> created]
                       /\ UNCHANGED xp_log
  /\ UNCHANGED <<now, pc, req, sess, overlaps>>

\* ------------------------------------------------------------ finish_goal
StepsOfGoal(g) == {s \in steps : s.goal_id = g}

\* The rows completed_steps counts: the caller's UserStep rows with
\* completed_at set, joined to the steps of the goal.
CompletedRows(u, g) ==
  {r \in user_steps : /\ r.user_id = u /\ r.completed_at # None
                      /\ \E s \in StepsOfGoal(g) : s.id = r.step_id}

\* As MayFinish, comparing nothing.
MayFinish_Always(total_steps, completed_steps) == TRUE

\* The negation of `total_steps > 0 and completed_steps < total_steps`.
MayFinish(total_steps, completed_steps) ==
  ~(total_steps > 0 /\ completed_steps < total_steps)

\* As GoalXpEntries, leaving out the bonuses of earlier finish calls.
GoalXpEntries_NoBonus(u, g) ==
  {e \in xp_log : e.user_id = u /\ e.goal_id = g /\ e.reason # "goal_complete"}

\* The entries total_goal_xp sums: the user's, tagged with the goal, any reason.
GoalXpEntries(u, g) == {e \in xp_log : e.user_id = u /\ e.goal_id = g}

\* As PyRound, with halves rounded up.
PyRound_HalfUp(n, d) == (2 * n + d) \div (2 * d)

\* Python's round() of n / d for n >= 0, d > 0: to the nearest integer, a
\* half to the even neighbour.
PyRound(n, d) ==
  LET q == n \div d
      r == n % d
  IN  IF 2 * r < d THEN q
      ELSE IF 2 * r > d THEN q + 1
      ELSE IF q % 2 = 0 THEN q ELSE q + 1

\* As GoalBonus, rounding every fraction up to the next multiple of 10.
GoalBonus_Ceiling(total_goal_xp) == ((total_goal_xp + 199) \div 200) * 10

\* round((total_goal_xp * 0.05) / 10) * 10.  In double arithmetic the
\* quotient is total_goal_xp / 200 up to one unit in the last place, and on
\* the ties (100, 300, 500, ...) it is exactly k + 0.5, so round() sees the
\* half and goes to the even neighbour.
GoalBonus(total_goal_xp) == PyRound(total_goal_xp, 200) * 10

GoalCompleteEntry(id, u, g, amount) ==
  [id |-> id, user_id |-> u, amount |-> amount, reason |-> "goal_complete",
   goal_id |-> g, step_id |-> "none"]

GoalCompleteRows(u, g) ==
  {e \in xp_log : e.user_id = u /\ e.reason = "goal_complete" /\ e.goal_id = g}

\* What the summary is built from: the goal's steps and the caller's
\* reflections on them.
SummaryInput(u, g) ==
  [total_steps |-> Cardinality(StepsOfGoal(g)),
   hard_count |-> Cardinality({s \in StepsOfGoal(g) : s.difficulty = "hard"}),
   reflection_count |->
     Cardinality({r \in reflections : /\ r.user_id = u
                                      /\ \E s \in StepsOfGoal(g) : s.id = r.step_id})]

\* The template text: a function of the three counts.
FallbackCompletionSummary(in) ==
  [text |-> "You finished the quest", total_steps |-> in.total_steps,
   hard_count |-> in.hard_count, easy_medium |-> in.total_steps - in.hard_count,
   reflection_count |-> in.reflection_count]

\* What a call of the summary provider may come to: the provider is not
\* Groq, the call raises, or the message has a content (a text, blanks only,
\* or nothing).
SummaryOutcomes ==
  {[kind |-> "mock", content |-> ""], [kind |-> "raise", content |-> ""]}
    \cup {[kind |-> "content", content |-> c] : c \in {"sa", " ", ""}}

\* str.strip() on the contents above.
Strip(c) == IF c = " " THEN "" ELSE c

\* generate_completion_summary_for_goal: every failure ends in the template.
GenerateCompletionSummary(out, in) ==
  IF out.kind = "mock" THEN FallbackCompletionSummary(in)
  ELSE IF out.kind = "raise" \/ out.content = "" THEN FallbackCompletionSummary(in)
  ELSE [text |-> Strip(out.content)]

\* `if goal.completion_summary:` on the column.
HasSummary(goal) == goal.completion_summary # None /\ goal.completion_summary[1].text # ""

\* Steps 1 to 3 of finish_goal: the goal and the two counts.  No handler
\* here changes the steps and a completed row stays completed, so the two
\* counts are taken in one step.
FinishBegin(p, seq) ==
  /\ pc[p] = "idle"
  /\ IF seq THEN AllIdle ELSE AllIdle \/ overlaps < MaxOverlap
  /\ \E u \in Users, g \in GoalIds :
       /\ Cardinality(GoalCompleteRows(u, g)) <= MaxBonus
       /\ IF GoalOf(u, g) = {} THEN Fail(p, "finish", u, g, "none", 404)
          ELSE IF ~MayFinish(Cardinality(StepsOfGoal(g)), Cardinality(CompletedRows(u, g)))
               THEN Fail(p, "finish", u, g, "none", 400)
               ELSE \E x \in GoalOf(u, g) :
                      /\ pc' = [pc EXCEPT ![p] = "bonus"]
                      /\ req' = [req EXCEPT ![p] = [op |-> "finish", user |-> u, goal |-> g]]
                      /\ sess' = [sess EXCEPT ![p] = [goal |-> x, bonus |-> 0]]
                      /\ resp' = NoResp
                      /\ overlaps' = IF AllIdle THEN overlaps ELSE overlaps + 1
  /\ UNCHANGED <<dbvars, now>>

\* Steps 4 and 5: the goal's XP, the bonus (added to the session, not yet
\* written), and the rows the summary is built from.
FinishBonus(p) ==
  /\ pc[p] = "bonus" /\ req[p].op = "finish"
  /\ sess' = [sess EXCEPT ![p] =
       [goal |-> sess[p].goal,
        bonus |-> GoalBonus(SumAmounts(GoalXpEntries(req[p].user, req[p].goal))),
        input |-> SummaryInput(req[p].user, req[p].goal)]]
  /\ pc' = [pc EXCEPT ![p] = "summary"]
  /\ resp' = NoResp
  /\ UNCHANGED <<dbvars, now, req, overlaps>>

\* The call of generate_completion_summary_for_goal, by finish_goal and by
\* get_goal_completion_summary: the transaction stays open meanwhile.
GenerateSummary(p) ==
  /\ pc[p] = "summary"
  /\ \E out \in SummaryOutcomes :
       sess' = [sess EXCEPT ![p] =
         [goal |-> sess[p].goal, bonus |-> sess[p].bonus, input |-> sess[p].input,
          summary |-> GenerateCompletionSummary(out, sess[p].input)]]
  /\ pc' = [pc EXCEPT ![p] = "commit"]
  /\ resp' = NoResp
  /\ UNCHANGED <<dbvars, now, req, overlaps>>

\* The UPDATE of the goal row at commit: completion_summary when the session
\* changed it, completed_at when the handler sets it (a fresh timestamp).
WriteGoal(se, setCompleted, t) ==
  {IF x.id = se.goal.id
   THEN [x EXCEPT !.completion_summary =
                    IF Some(se.summary) # se.goal.completion_summary
                    THEN Some(se.summary) ELSE @,
                  !.completed_at = IF setCompleted THEN Some(t) ELSE @]
   ELSE x : x \in goals}

FinishResponse(u, g, bonus, t, summary) ==
  [op |-> "finish", user |-> u, goal |-> g, status |-> 200,
   bonus_xp |-> bonus, completed_at |-> t, summary_text |-> summary]

\* Step 6: the only commit of finish_goal writes the bonus entry, the summary
\* and completed_at together.
FinishCommit(p) ==
  /\ pc[p] = "commit" /\ req[p].op = "finish"
  /\ goals' = WriteGoal(sess[p], TRUE, now)
  /\ IF sess[p].bonus > 0
     THEN xp_log' = xp_log \cup
            {GoalCompleteEntry(NewId(GoalCompleteRows(req[p].user, req[p].goal)),
                               req[p].user, req[p].goal, sess[p].bonus)}
     ELSE UNCHANGED xp_log
  /\ resp' = FinishResponse(req[p].user, req[p].goal, sess[p].bonus, now, sess[p].summary)
  /\ pc' = [pc EXCEPT ![p] = "idle"]
  /\ req' = [req EXCEPT ![p] = NoReq]
  /\ sess' = [sess EXCEPT ![p] = NoSess]
  /\ UNCHANGED <<steps, user_steps, reflections, now, overlaps>>

\* ------------------------------------------- get_goal_completion_summary
SummaryResponse(u, g, summary) ==
  [op |-> "summary", user |-> u, goal |-> g, status |-> 200, summary_text |-> summary]

\* Up to the generator: 404, 400, the stored summary when there is one,
\* otherwise the rows the summary is built from.
ReadSummaryBegin(p, seq) ==
  /\ pc[p] = "idle"
  /\ IF seq THEN AllIdle ELSE AllIdle \/ overlaps < MaxOverlap
  /\ \E u \in Users, g \in GoalIds :
       IF GoalOf(u, g) = {} THEN Fail(p, "summary", u, g, "none", 404)
       ELSE \E x \in GoalOf(u, g) :
              IF x.completed_at = None THEN Fail(p, "summary", u, g, "none", 400)
              ELSE IF HasSummary(x)
                   THEN /\ resp' = SummaryResponse(u, g, x.completion_summary[1])
                        /\ UNCHANGED <<pc, req, sess, overlaps>>
                   ELSE /\ pc' = [pc EXCEPT ![p] = "summary"]
                        /\ req' = [req EXCEPT ![p] = [op |-> "summary", user |-> u, goal |-> g]]
                        /\ sess' = [sess EXCEPT ![p] =
                             [goal |-> x, bonus |-> 0, input |-> SummaryInput(u, g)]]
                        /\ resp' = NoResp
                        /\ overlaps' = IF AllIdle THEN overlaps ELSE overlaps + 1
  /\ UNCHANGED <<dbvars, now>>

ReadSummaryCommit(p) ==
  /\ pc[p] = "commit" /\ req[p].op = "summary"
  /\ goals' = WriteGoal(sess[p], FALSE, now)
  /\ resp' = SummaryResponse(req[p].user, req[p].goal, sess[p].summary)
  /\ pc' = [pc EXCEPT ![p] = "idle"]
  /\ req' = [req EXCEPT ![p] = NoReq]
  /\ sess' = [sess EXCEPT ![p] = NoSess]
  /\ UNCHANGED <<steps, user_steps, reflections, xp_log, now, overlaps>>

\* ------------------------------------------------------------ level curve
MAX_LEVEL == 60

\* The largest power of two that is at most n (n >= 1).
RECURSIVE Pow2Floor(_)
Pow2Floor(n) == IF n < 2 THEN 1 ELSE 2 * Pow2Floor(n \div 2)

\* requirements[-1] * 1.10 where the real product prev * 11 / 10 is an
\* integer N: the double nearest to 1.10 exceeds 1.1 by 0.4 * 2^-52, so the
\* product exceeds N by prev * 0.4 * 2^-52 and is rounded to N itself exactly
\* when that is less than half a unit in the last place of N.
ProductIsExact(prev) == 4 * prev < 5 * Pow2Floor((prev * 11) \div 10)

\* As NextRequirement, rounding up to the next multiple of 10.
NextRequirement_Ceiling(prev) ==
  LET rounded == ((prev * 11 + 99) \div 100) * 10
  IN  IF rounded < 10 THEN 10 ELSE rounded

\* int(round(needed / 10.0) * 10) for needed = prev * 1.10, and 10 at least.
\* needed / 10.0 is prev * 11 / 100; on a half, round() goes to the even
\* neighbour when the double product is exact and up when it lies above.
NextRequirement(prev) ==
  LET num == prev * 11
      half == num % 100 = 50
      rounded == IF half /\ ~ProductIsExact(prev)
                 THEN (num \div 100 + 1) * 10
                 ELSE PyRound(num, 100) * 10
  IN  IF rounded < 10 THEN 10 ELSE rounded

\* _build_level_requirements, the first n entries: 100 for level 1, then each
\* entry from the entry before it.
RECURSIVE BuildLevelRequirements(_)
BuildLevelRequirements(n) ==
  IF n = 0 THEN <<>>
  ELSE IF n = 1 THEN <<100>>
  ELSE LET requirements == BuildLevelRequirements(n - 1)
       IN  Append(requirements, NextRequirement(requirements[n - 1]))

LEVEL_XP_REQUIREMENTS == BuildLevelRequirements(MAX_LEVEL - 1)

\* sum() of the first k entries of a list of integers.
RECURSIVE SumFirst(_, _)
SumFirst(list, k) == IF k = 0 THEN 0 ELSE SumFirst(list, k - 1) + list[k]

XP_TO_REACH_MAX == SumFirst(LEVEL_XP_REQUIREMENTS, Len(LEVEL_XP_REQUIREMENTS))

RECURSIVE Gcd(_, _)
Gcd(a, b) == IF b = 0 THEN a ELSE Gcd(b, a % b)

\* The float n / d (n >= 0, d > 0) as a fraction in lowest terms: two
\* quotients are the same float exactly when they are the same fraction.
Quotient(n, d) == <<n \div Gcd(n, d), d \div Gcd(n, d)>>

LevelResult(level, current_level_xp, next_level_xp, progress_to_next) ==
  [level |-> level, current_level_xp |-> current_level_xp,
   next_level_xp |-> next_level_xp, progress_to_next |-> progress_to_next]

\* As MaxLevelResult, starting over at level 1.
MaxLevelResult_Reset == LevelResult(1, 0, 0, Quotient(1, 1))

\* return MAX_LEVEL, 0, 0, 1.0
MaxLevelResult == LevelResult(MAX_LEVEL, 0, 0, Quotient(1, 1))

\* As ClampXp, letting a negative total through.
ClampXp_None(total_xp) == total_xp

\* if total_xp < 0: total_xp = 0
ClampXp(total_xp) == IF total_xp < 0 THEN 0 ELSE total_xp

\* As Reaches, asking for more than the requirement.
Reaches_Strictly(remaining, needed) == remaining > needed

\* remaining >= needed
Reaches(remaining, needed) == remaining >= needed

\* As WalkLevels, gaining the level without paying for it.
RECURSIVE WalkLevels_NoSubtract(_, _, _)
WalkLevels_NoSubtract(level, remaining, i) ==
  IF i > Len(LEVEL_XP_REQUIREMENTS)
  THEN [level |-> level, remaining |-> remaining]
  ELSE IF Reaches(remaining, LEVEL_XP_REQUIREMENTS[i]) /\ level < MAX_LEVEL
       THEN WalkLevels_NoSubtract(level + 1, remaining, i + 1)
       ELSE [level |-> level, remaining |-> remaining]

\* The loop over LEVEL_XP_REQUIREMENTS from entry i on: a level is gained
\* while the remaining XP pays for it, the first one it does not pay for
\* ends the loop.
RECURSIVE WalkLevels(_, _, _)
WalkLevels(level, remaining, i) ==
  IF i > Len(LEVEL_XP_REQUIREMENTS)
  THEN [level |-> level, remaining |-> remaining]
  ELSE IF Reaches(remaining, LEVEL_XP_REQUIREMENTS[i]) /\ level < MAX_LEVEL
       THEN WalkLevels(level + 1, remaining - LEVEL_XP_REQUIREMENTS[i], i + 1)
       ELSE [level |-> level, remaining |-> remaining]

\* compute_level_from_xp
ComputeLevelFromXp(total_xp) ==
  LET total == ClampXp(total_xp)
  IN  IF total >= XP_TO_REACH_MAX
      THEN MaxLevelResult
      ELSE LET w == WalkLevels(1, total, 1)
           IN  IF w.level >= MAX_LEVEL
               THEN MaxLevelResult
               ELSE LET next_level_xp == LEVEL_XP_REQUIREMENTS[w.level]
                    IN  LevelResult(w.level, w.remaining, next_level_xp,
                                    IF next_level_xp # 0
                                    THEN Quotient(w.remaining, next_level_xp)
                                    ELSE Quotient(0, 1))

\* The totals compute_level_from_xp is called with: the low ones, the ones
\* around the top of the curve and the ones around every level's threshold.
LevelInputs ==
  (-3 .. MaxXp)
    \cup {XP_TO_REACH_MAX + d : d \in -MaxXp .. MaxXp}
    \cup {SumFirst(LEVEL_XP_REQUIREMENTS, k) + d : k \in 1 .. MAX_LEVEL - 1, d \in {-1, 0, 1}}

\* A call compute_level_from_xp(total_xp) about to run.
LevelCall(total_xp) == [op |-> "compute_level", total_xp |-> total_xp]

InitLevel ==
  /\ goals = {} /\ steps = {} /\ user_steps = {} /\ reflections = {} /\ xp_log = {}
  /\ now = 0 /\ overlaps = 0
  /\ \E x \in LevelInputs :
       req = [p \in Procs |-> IF p = "p1" THEN LevelCall(x) ELSE NoReq]
  /\ pc = [p \in Procs |-> IF p = "p1" THEN "call" ELSE "idle"]
  /\ sess = [p \in Procs |-> NoSess]
  /\ resp = NoResp

LevelResponse(total_xp, r) ==
  [op |-> "compute_level", total_xp |-> total_xp, level |-> r.level,
   current_level_xp |-> r.current_level_xp, next_level_xp |-> r.next_level_xp,
   progress_to_next |-> r.progress_to_next]

ComputeLevel(p) ==
  /\ pc[p] = "call" /\ req[p].op = "compute_level"
  /\ resp' = LevelResponse(req[p].total_xp, ComputeLevelFromXp(req[p].total_xp))
  /\ pc' = [pc EXCEPT ![p] = "idle"]
  /\ req' = [req EXCEPT ![p] = NoReq]
  /\ UNCHANGED <<goals, steps, user_steps, reflections, xp_log, now, sess, overlaps>>

\* ------------------------------------------------------------ create_goal
\* Fresh primary keys for Goal rows (gen_uuid): ids that no row refers to.
FreshGoalIds ==
  {g \in GoalIds : /\ \A x \in goals : x.id # g
                   /\ \A s \in steps : s.goal_id # g
                   /\ \A e \in xp_log : e.goal_id # g}

\* create_goal: one INSERT and the commit.
CreateGoal(p, seq) ==
  /\ pc[p] = "idle"
  /\ IF seq THEN AllIdle ELSE AllIdle \/ overlaps < MaxOverlap
  /\ \E u \in Users, g \in FreshGoalIds :
       /\ goals' = goals \cup {NewGoal(g, u)}
       /\ resp' = [op |-> "create_goal", user |-> u, goal |-> g, status |-> 201]
  /\ UNCHANGED <<steps, user_steps, reflections, xp_log, now, pc, req, sess, overlaps>>

\* ------------------------------------------------- list_goals and get_goal
\* The filter of list_goals: the caller's goals that are confirmed and not
\* finished.
Listed(x, u) == x.user_id = u /\ x.is_confirmed /\ x.completed_at = None

\* For each step of a set, one of the caller's progress rows on it, as
\* next(us for us in s.user_steps if us.user_id == ...) finds it, or None.
UserStepPicks(u, S) ==
  {f \in [{s.id : s \in S} -> {None} \cup {Some(r) : r \in user_steps}] :
     \A sid \in {s.id : s \in S} : f[sid] \in First(UserStepRows(u, sid))}

\* For each step of a set, what the Reflection query's .first() returns.
ReflectionPicks(u, S) ==
  {f \in [{s.id : s \in S} -> {None} \cup {Some(r) : r \in reflections}] :
     \A sid \in {s.id : s \in S} : f[sid] \in First(ReflectionRows(u, sid))}

\* The flags list_goals attaches to a step.
ListedStep(s, us) ==
  [id |-> s.id, position |-> s.position,
   is_started |-> (us # None /\ us[1].started_at # None),
   is_completed |-> (us # None /\ us[1].completed_at # None)]

\* The flags and the reflection get_goal attaches to a step.
GoalStep(s, us, rf) ==
  [id |-> s.id, position |-> s.position,
   is_started |-> (us # None /\ us[1].started_at # None),
   is_completed |-> (us # None /\ us[1].completed_at # None),
   has_reflection |-> (rf # None),
   reflection_text |-> IF rf = None THEN None ELSE Some(rf[1].text)]

\* list_goals: reads only.
ListGoals(p, seq) ==
  /\ pc[p] = "idle"
  /\ IF seq THEN AllIdle ELSE AllIdle \/ overlaps < MaxOverlap
  /\ \E u \in Users :
       LET listed == {x \in goals : Listed(x, u)}
           shown == {s \in steps : \E x \in listed : s.goal_id = x.id}
       IN  \E us \in UserStepPicks(u, shown) :
             resp' = [op |-> "list_goals", user |-> u, goal |-> "none", status |-> 200,
                      goals |-> {[id |-> x.id,
                                  steps |-> {ListedStep(s, us[s.id]) : s \in StepsOfGoal(x.id)}] :
                                   x \in listed}]
  /\ UNCHANGED <<dbvars, now, pc, req, sess, overlaps>>

\* get_goal: reads only; 404 when the goal is not the caller's.
GetGoal(p, seq) ==
  /\ pc[p] = "idle"
  /\ IF seq THEN AllIdle ELSE AllIdle \/ overlaps < MaxOverlap
  /\ \E u \in Users, g \in GoalIds :
       IF GoalOf(u, g) = {}
       THEN resp' = [op |-> "get_goal", user |-> u, goal |-> g, status |-> 404]
       ELSE \E us \in UserStepPicks(u, StepsOfGoal(g)), rf \in ReflectionPicks(u, StepsOfGoal(g)) :
              resp' = [op |-> "get_goal", user |-> u, goal |-> g, status |-> 200,
                       steps |-> {GoalStep(s, us[s.id], rf[s.id]) : s \in StepsOfGoal(g)}]
  /\ UNCHANGED <<dbvars, now, pc, req, sess, overlaps>>

\* ------------------------------------------------------------ delete_goal
\* As LedgerAfterDelete, with the entries tagged with the goal removed.
LedgerAfterDelete_Purged(u, g) == {e \in xp_log : ~(e.user_id = u /\ e.goal_id = g)}

\* The ledger after db.delete(goal): XPLog has a foreign key to users only
\* and the goal's id only in its JSON meta, so no cascade reaches it.
LedgerAfterDelete(u, g) == xp_log

\* delete_goal: db.delete(goal) deletes the goal's Step rows and their
\* progress rows through the ORM cascades, the reflections on those steps
\* through ON DELETE CASCADE.  The handler waits for nothing: one step.
DeleteGoal(p, seq) ==
  /\ pc[p] = "idle"
  /\ IF seq THEN AllIdle ELSE AllIdle \/ overlaps < MaxOverlap
  /\ \E u \in Users, g \in GoalIds :
       IF GoalOf(u, g) = {}
       THEN /\ resp' = [op |-> "delete_goal", user |-> u, goal |-> g, status |-> 404]
            /\ UNCHANGED dbvars
       ELSE LET kept == {s \in steps : s.goal_id # g}
            IN  /\ goals' = {x \in goals : x.id # g}
                /\ steps' = kept
                /\ user_steps' = Cascade(user_steps, kept)
                /\ reflections' = Cascade(reflections, kept)
                /\ xp_log' = LedgerAfterDelete(u, g)
                /\ resp' = [op |-> "delete_goal", user |-> u, goal |-> g, status |-> 204]
  /\ UNCHANGED <<now, pc, req, sess, overlaps>>

\* ---------------------------------------- get_user_progress, get_xp_summary
\* As TotalXp, summing the entries of every user.
TotalXp_AllUsers(u) == SumAmounts(xp_log)

\* coalesce(sum(XPLog.amount), 0) over the user's entries.
TotalXp(u) == SumAmounts({e \in xp_log : e.user_id = u})

\* get_user_progress: reads only.
GetUserProgress(p, seq) ==
  /\ pc[p] = "idle"
  /\ IF seq THEN AllIdle ELSE AllIdle \/ overlaps < MaxOverlap
  /\ \E u \in Users :
       LET total_xp == TotalXp(u)
           r == ComputeLevelFromXp(total_xp)
       IN  resp' = [op |-> "user_progress", user |-> u, goal |-> "none", status |-> 200,
                    total_xp |-> total_xp, level |-> r.level,
                    current_level_xp |-> r.current_level_xp,
                    next_level_xp |-> r.next_level_xp]
  /\ UNCHANGED <<dbvars, now, pc, req, sess, overlaps>>

\* get_xp_summary: reads only.
GetXpSummary(p, seq) ==
  /\ pc[p] = "idle"
  /\ IF seq THEN AllIdle ELSE AllIdle \/ overlaps < MaxOverlap
  /\ \E u \in Users :
       LET total_xp == TotalXp(u)
           r == ComputeLevelFromXp(total_xp)
       IN  resp' = [op |-> "xp_summary", user |-> u, goal |-> "none", status |-> 200,
                    total_xp |-> total_xp, level |-> r.level,
                    current_level_xp |-> r.current_level_xp,
                    next_level_xp |-> r.next_level_xp,
                    progress_to_next |-> r.progress_to_next]
  /\ UNCHANGED <<dbvars, now, pc, req, sess, overlaps>>

\* ------------------------------------------------------- specifications
Handler(p, seq) ==
  \/ StartBegin(p, seq) \/ StartCommit(p)
  \/ CompleteBegin(p, seq) \/ CompleteXpCheck(p) \/ CompleteCommit(p)
  \/ ReflectBegin(p, seq) \/ ReflectCommit(p)

\* Requests overlap: a handler's statements interleave with the others'.
Next == Tick \/ \E p \in Procs : Handler(p, FALSE)

Spec == Init /\ [][Next]_vars

\* Requests arrive one after the other: a call starts when none is running,
\* so one worker serves them all.
NextSeq == Tick \/ Handler("p1", TRUE)

SeqSpec == InitSeq /\ [][NextSeq]_vars

\* Overlapping start and complete requests on a goal of several steps.
\* Reflections are left out: create_or_update_reflection neither reads nor
\* writes a progress row, and start_step and complete_step read no reflection.
ProgressHandler(p) ==
  \/ StartBegin(p, FALSE) \/ StartCommit(p)
  \/ CompleteBegin(p, FALSE) \/ CompleteXpCheck(p) \/ CompleteCommit(p)

NextSteps == Tick \/ \E p \in Procs : ProgressHandler(p)

StepSpec == InitSteps /\ [][NextSteps]_vars

\* Calls one after the other on a goal with no step, with two steps or with
\* three: complete, reflect, finish and the reading of the summary.
InitFinish == InitWith({{}, ShortPlan, HardPlan})

FinishHandler(p, seq) ==
  \/ FinishBegin(p, seq) \/ FinishBonus(p) \/ GenerateSummary(p) \/ FinishCommit(p)

NextFinish ==
  \/ Tick
  \/ CompleteBegin("p1", TRUE) \/ CompleteXpCheck("p1") \/ CompleteCommit("p1")
  \/ ReflectBegin("p1", TRUE) \/ ReflectCommit("p1")
  \/ FinishHandler("p1", TRUE)
  \/ ReadSummaryBegin("p1", TRUE) \/ ReadSummaryCommit("p1")

FinishSpec == InitFinish /\ [][NextFinish]_vars

\* Overlapping complete and finish requests on the two-step goal.  start_step
\* sets started_at only and finish_goal counts completed rows, so start calls
\* are left out.
NextRace ==
  \/ Tick
  \/ \E p \in Procs :
       \/ CompleteBegin(p, FALSE) \/ CompleteXpCheck(p) \/ CompleteCommit(p)
       \/ FinishHandler(p, FALSE)

RaceSpec == InitSteps /\ [][NextRace]_vars

\* Plans: calls one after the other on a goal fresh from create_goal.
InitPlan == InitWith({{}})

NextPlan ==
  \/ GeneratePlanBegin("p1", TRUE) \/ RegeneratePlanBegin("p1", TRUE)
  \/ PlanCommit("p1")
  \/ ConfirmPlan("p1", TRUE)

PlanSpec == InitPlan /\ [][NextPlan]_vars

\* The level curve on its own: one call of compute_level_from_xp per total.
NextLevel == ComputeLevel("p1")

LevelSpec == InitLevel /\ [][NextLevel]_vars

\* Goals from create_goal on, calls one after the other on an empty
\* database: create, the plan handlers, the reads of goals, delete.
InitGoals ==
  /\ goals = {} /\ steps = {} /\ user_steps = {} /\ reflections = {} /\ xp_log = {}
  /\ now = 0 /\ overlaps = 0
  /\ pc = [p \in Procs |-> "idle"]
  /\ req = [p \in Procs |-> NoReq]
  /\ sess = [p \in Procs |-> NoSess]
  /\ resp = NoResp

NextGoals ==
  \/ CreateGoal("p1", TRUE) \/ ListGoals("p1", TRUE) \/ GetGoal("p1", TRUE)
  \/ GeneratePlanBegin("p1", TRUE) \/ RegeneratePlanBegin("p1", TRUE) \/ PlanCommit("p1")
  \/ ConfirmPlan("p1", TRUE)
  \/ DeleteGoal("p1", TRUE)

GoalSpec == InitGoals /\ [][NextGoals]_vars

\* A goal's life after its creation, calls one after the other on the seeded
\* single-step goal: every handler that writes, with a provider that answers
\* with short plans, and the reads of the XP.  The clock stands still: no
\* handler here compares two timestamps.
NextLife ==
  \/ GeneratePlanBegin("p1", TRUE) \/ RegeneratePlanBegin("p1", TRUE) \/ ShortPlanCommit("p1")
  \/ ConfirmPlan("p1", TRUE)
  \/ StartBegin("p1", TRUE) \/ StartCommit("p1")
  \/ CompleteBegin("p1", TRUE) \/ CompleteXpCheck("p1") \/ CompleteCommit("p1")
  \/ ReflectBegin("p1", TRUE) \/ ReflectCommit("p1")
  \/ FinishHandler("p1", TRUE)
  \/ DeleteGoal("p1", TRUE)
  \/ GetUserProgress("p1", TRUE) \/ GetXpSummary("p1", TRUE)

LifeSpec == Init /\ [][NextLife]_vars

\* The plan generator on its own: one call of generate_plan_for_goal per
\* outcome of the provider.
NextParse == GeneratePlan("p1")

ParseSpec == InitParse /\ [][NextParse]_vars

\* The fallback plan confirmed: calls one after the other on a goal whose
\* steps are those confirm_goal_plan creates from _mock_plan, at positions
\* 1, 2, 5 and 6, with the plan still cached on the goal.
GapSteps == {StepRow(StepIdPool[i], "g1", MockPlan[i]) : i \in 1..Len(MockPlan)}

InitGap ==
  /\ steps = GapSteps
  /\ goals = {[NewGoal("g1", "u1") EXCEPT !.is_confirmed = TRUE, !.ai_plan = Some(MockPlan)]}
  /\ user_steps = {} /\ reflections = {} /\ xp_log = {}
  /\ now = 0 /\ overlaps = 0
  /\ pc = [p \in Procs |-> "idle"]
  /\ req = [p \in Procs |-> NoReq]
  /\ sess = [p \in Procs |-> NoSess]
  /\ resp = NoResp

NextGap ==
  \/ Tick
  \/ StartBegin("p1", TRUE) \/ StartCommit("p1")
  \/ CompleteBegin("p1", TRUE) \/ CompleteXpCheck("p1") \/ CompleteCommit("p1")

GapSpec == InitGap /\ [][NextGap]_vars

\* Finishing again: calls one after the other on a goal of eight steps,
\* seven hard and one easy (290 XP of step completions, just below the tie
\* at 300), complete and finish only.  The clock stands still: neither
\* handler compares two timestamps.
LongPlan ==
  {[id |-> StepIdPool[i], goal_id |-> "g1", position |-> i,
    difficulty |-> IF i < 8 THEN "hard" ELSE "easy"] : i \in 1..8}

InitBonus == InitWith({LongPlan})

NextBonus ==
  \/ CompleteBegin("p1", TRUE) \/ CompleteXpCheck("p1") \/ CompleteCommit("p1")
  \/ FinishHandler("p1", TRUE)

BonusSpec == InitBonus /\ [][NextBonus]_vars

\* The ledger over a goal's life, calls one after the other on a seeded goal
\* of three steps (hard, hard, medium) whose completions and reflections
\* come to more than 100 XP: every handler that writes, with a provider that
\* answers regenerate with short plans.  The clock stands still: no property
\* of the ledger reads a timestamp.
InitXp == InitWith({HardPlan})

NextXp ==
  \/ RegeneratePlanBegin("p1", TRUE) \/ ShortPlanCommit("p1")
  \/ ConfirmPlan("p1", TRUE)
  \/ StartBegin("p1", TRUE) \/ StartCommit("p1")
  \/ CompleteBegin("p1", TRUE) \/ CompleteXpCheck("p1") \/ CompleteCommit("p1")
  \/ ReflectBegin("p1", TRUE) \/ ReflectCommit("p1")
  \/ FinishHandler("p1", TRUE)
  \/ DeleteGoal("p1", TRUE)

XpSpec == InitXp /\ [][NextXp]_vars


\* ================================================================ claims
\* Rows of a table, and entries of the ledger, by user and step.
RowsIn(tbl, u, sid) == {r \in tbl : r.user_id = u /\ r.step_id = sid}

EntriesIn(log, u, reason, sid) ==
  {e \in log : e.user_id = u /\ e.reason = reason /\ e.step_id = sid}

Completed(u, sid) == \E r \in UserStepRows(u, sid) : r.completed_at # None

\* The step just before s in its goal is not completed by u.
PrecedingIncomplete(u, s) ==
  \E t \in steps :
    /\ t.goal_id = s.goal_id /\ t.position < s.position
    /\ \A o \in steps : (o.goal_id = s.goal_id /\ o.position < s.position) => o.position <= t.position
    /\ ~Completed(u, t.id)

Commits(p, op) == pc[p] = "commit" /\ req[p].op = op /\ pc'[p] = "idle"

Admitted(p) == pc[p] = "idle" /\ pc'[p] # "idle"

\* C1: when calls do not overlap, the ledger never holds two step_complete
\* entries for a (user, step); it holds exactly one as soon as a complete call
\* has succeeded, no entry is ever removed, and a complete call that succeeds
\* when the entry is already there appends nothing and returns xp_awarded = 0.
C1_AwardOncePerStep ==
  [][ /\ xp_log \subseteq xp_log'
      /\ \A u \in Users, sid \in StepIds :
           Cardinality(EntriesIn(xp_log', u, "step_complete", sid)) <= 1
      /\ \A p \in Procs : Commits(p, "complete") =>
           /\ Cardinality(EntriesIn(xp_log', req[p].user, "step_complete", req[p].step.id)) = 1
           /\ EntriesIn(xp_log, req[p].user, "step_complete", req[p].step.id) # {} =>
                (xp_log' = xp_log /\ resp'.xp_awarded = 0) ]_vars

\* A complete call has succeeded on a step already awarded.
C1_Witness ==
  /\ resp.op = "complete" /\ resp.status = 200 /\ resp.xp_awarded = 0
  /\ Cardinality(CompletionXp(resp.user, resp.step)) = 1

\* C2: with overlapping complete calls no state has two step_complete ledger
\* entries for the same (user, step).
C2_NoDuplicateCompletionXp ==
  \A u \in Users, sid \in StepIds : Cardinality(CompletionXp(u, sid)) <= 1

\* C3: a start or complete call on an existing step of the caller's goal whose
\* preceding step the caller has not completed is not let through and is not
\* answered 404, so it is answered 400; a call answered 400 leaves every table
\* as it was, and is never a call on the first step of the goal.
C3_SequenceViolation ==
  [][ /\ \A p \in Procs :
           (Admitted(p) /\ req'[p].op \in {"start", "complete"}) =>
              ~PrecedingIncomplete(req'[p].user, req'[p].step)
      /\ (resp'.op \in {"start", "complete"} /\ resp'.status = 404) =>
           (GoalOf(resp'.user, resp'.goal) = {} \/ StepOf(resp'.goal, resp'.step) = {})
      /\ (resp'.op \in {"start", "complete"} /\ resp'.status = 400) =>
           /\ UNCHANGED dbvars
           /\ \E s \in StepOf(resp'.goal, resp'.step), t \in steps :
                t.goal_id = s.goal_id /\ t.position < s.position ]_vars

\* A complete call was refused with 400 while the caller had progress rows.
C3_Witness ==
  /\ resp.op = "complete" /\ resp.status = 400
  /\ user_steps # {}
  /\ \E s \in StepOf(resp.goal, resp.step) : PrecedingIncomplete(resp.user, s)

\* C4: whenever a progress row has started_at or completed_at set, the same
\* user has a completed row for every step of the goal at a smaller position.
C4_CompletedPrefix ==
  \A r \in user_steps :
    (r.started_at # None \/ r.completed_at # None) =>
      \A s \in steps, t \in steps :
        (s.id = r.step_id /\ t.goal_id = s.goal_id /\ t.position < s.position) =>
          Completed(r.user_id, t.id)

\* The last step of the goal is completed, and so is the one before it.
C4_Witness ==
  \E r \in user_steps, s \in steps :
    /\ s.id = r.step_id /\ r.completed_at # None
    /\ \E t \in steps : t.position < s.position /\ Completed(r.user_id, t.id)

\* C5: a completed progress row is never removed and never loses started_at
\* or completed_at, and a start or complete call that arrived when the row
\* was already completed leaves its started_at and completed_at as they are.
C5_CompletedIsFinal ==
  [][ /\ \A r \in user_steps : r.completed_at # None =>
           \E r2 \in RowsIn(user_steps', r.user_id, r.step_id) :
             r2.id = r.id /\ r2.completed_at # None /\ r2.started_at # None
      /\ \A p \in Procs : (Commits(p, "start") \/ Commits(p, "complete")) =>
           \A r \in UserStepRows(req[p].user, req[p].step.id) :
             r.id \in sess[p].doneAtBegin =>
               \E r2 \in RowsIn(user_steps', r.user_id, r.step_id) :
                 /\ r2.id = r.id
                 /\ r2.started_at = r.started_at
                 /\ r2.completed_at = r.completed_at ]_vars

\* A complete call that arrived after the step was completed, at a later
\* time, has been answered.
C5_Witness ==
  /\ resp.op = "complete" /\ resp.status = 200 /\ resp.xp_awarded = 0
  /\ \E r \in UserStepRows(resp.user, resp.step) :
       r.completed_at # None /\ r.completed_at[1] < now

\* C6: a progress row with completed_at set has started_at set, and
\* completed_at is not before started_at.
C6_CompletedAfterStarted ==
  \A r \in user_steps :
    r.completed_at # None =>
      (r.started_at # None /\ r.completed_at[1] >= r.started_at[1])

\* A row started at one time and completed at a later one.
C6_Witness ==
  \E r \in user_steps :
    r.completed_at # None /\ r.started_at # None /\ r.completed_at[1] > r.started_at[1]

\* XP of a step by difficulty, as the claim states it.
ClaimedXp(d) == CASE d = "easy" -> 10 [] d = "medium" -> 20 [] d = "hard" -> 40

\* C7: a complete call that succeeds when the ledger has no step_complete
\* entry for its (user, step) appends exactly one such entry, of 10 XP for an
\* easy, 20 for a medium and 40 for a hard step, returns that amount as
\* xp_awarded and raises the xp_awarded of its progress row by that amount.
C7_FirstCompletionAward ==
  [][ \A p \in Procs :
        (Commits(p, "complete")
           /\ EntriesIn(xp_log, req[p].user, "step_complete", req[p].step.id) = {}) =>
          LET amt == ClaimedXp(req[p].step.difficulty)
              old == IF sess[p].isNew THEN 0 ELSE sess[p].orig.xp_awarded
          IN  /\ \E e \in xp_log' :
                   /\ xp_log' = xp_log \cup {e} /\ e \notin xp_log
                   /\ e.reason = "step_complete" /\ e.amount = amt
                   /\ e.user_id = req[p].user /\ e.step_id = req[p].step.id
              /\ resp'.xp_awarded = amt
              /\ \A r \in RowsIn(user_steps', req[p].user, req[p].step.id) :
                   r.xp_awarded = old + amt ]_vars

\* The three difficulties have each been completed and awarded.
C7_Witness ==
  /\ resp.op = "complete" /\ resp.xp_awarded = 40
  /\ \E e \in xp_log : e.reason = "step_complete" /\ e.amount = 10
  /\ \E e \in xp_log : e.reason = "step_complete" /\ e.amount = 20

\* C8: the xp_awarded of every progress row equals the sum of the amounts of
\* the user's ledger entries tagged with the row's step.
C8_XpCacheEqualsLedger ==
  \A r \in user_steps :
    r.xp_awarded =
      SumAmounts({e \in xp_log : e.user_id = r.user_id /\ e.step_id = r.step_id})

\* C9: when calls do not overlap, a (user, step) never has two Reflection rows
\* or two reflection ledger entries; after a reflect call there is exactly one
\* of each and the row holds the call's text; a reflect call that finds a row
\* changes nothing but that row's text.
C9_ReflectionUpsert ==
  [][ /\ \A u \in Users, sid \in StepIds :
           /\ Cardinality(RowsIn(reflections', u, sid)) <= 1
           /\ Cardinality(EntriesIn(xp_log', u, "reflection", sid)) <= 1
      /\ \A p \in Procs : Commits(p, "reflect") =>
           /\ Cardinality(RowsIn(reflections', req[p].user, req[p].step.id)) = 1
           /\ \A r \in RowsIn(reflections', req[p].user, req[p].step.id) : r.text = req[p].text
           /\ Cardinality(EntriesIn(xp_log', req[p].user, "reflection", req[p].step.id)) = 1
           /\ RowsIn(reflections, req[p].user, req[p].step.id) # {} =>
                /\ xp_log' = xp_log
                /\ {[id |-> r.id, user_id |-> r.user_id, step_id |-> r.step_id] : r \in reflections'}
                     = {[id |-> r.id, user_id |-> r.user_id, step_id |-> r.step_id] : r \in reflections}
                /\ UNCHANGED <<goals, steps, user_steps>> ]_vars

\* A reflect call found the caller's reflection and holds another text for it.
C9_Witness ==
  \E p \in Procs :
    /\ pc[p] = "commit" /\ req[p].op = "reflect"
    /\ ~sess[p].isNew /\ sess[p].cur.text # sess[p].orig.text
    /\ Cardinality(ReflectionXpRows(req[p].user, req[p].step.id)) = 1

\* C10: with overlapping reflect calls no state has two Reflection rows or two
\* reflection ledger entries for the same (user, step).
C10_NoDuplicateReflection ==
  \A u \in Users, sid \in StepIds :
    /\ Cardinality(ReflectionRows(u, sid)) <= 1
    /\ Cardinality(ReflectionXpRows(u, sid)) <= 1

C12_ReflectionAmountWithBase ==
  (/\ resp.op = "reflect" /\ resp.status = 201
   /\ \A e \in xp_log : e.user_id = resp.user =>
         (e.reason = "reflection" /\ e.step_id = resp.step)) =>
    \E s \in StepOf(resp.goal, resp.step) :
      \E e \in xp_log :
        /\ {x \in xp_log : x.user_id = resp.user} = {e}
        /\ e.reason = "reflection" /\ e.goal_id = resp.goal /\ e.step_id = resp.step
        /\ e.amount = BaseXp(s.difficulty) + ReflectionXp

\* The XP of the ledger for a (user, goal), any reason.
GoalXp(u, g) == SumAmounts(GoalXpEntries(u, g))

\* C13: a finish call on a goal with a step the caller has not completed is
\* not let past the check; a finish call answered 400 is on such a goal and
\* leaves every table as it was; a finish call on a goal without steps
\* succeeds with bonus 0.
C13_IncompletePrerequisite ==
  [][ /\ \A p \in Procs :
           (Admitted(p) /\ req'[p].op = "finish") =>
              \A s \in StepsOfGoal(req'[p].goal) : Completed(req'[p].user, s.id)
      /\ (resp'.op = "finish" /\ resp'.status = 400) =>
           /\ UNCHANGED dbvars
           /\ \E s \in StepsOfGoal(resp'.goal) : ~Completed(resp'.user, s.id)
      /\ \A p \in Procs :
           (Commits(p, "finish") /\ StepsOfGoal(req[p].goal) = {}) =>
              (resp'.status = 200 /\ resp'.bonus_xp = 0) ]_vars

\* C14: whatever the interleaving of start, complete and finish calls, a goal
\* with completed_at set has a completed progress row of its owner for every
\* one of its steps.
C14_FinishedImpliesAllCompleted ==
  \A x \in goals :
    x.completed_at # None =>
      \A s \in StepsOfGoal(x.id) : Completed(x.user_id, s.id)

\* C15: once a goal's completed_at is set, no step changes it.
C15_CompletedAtWrittenOnce ==
  [][ \A x \in goals : x.completed_at # None =>
        \A y \in goals' : y.id = x.id => y.completed_at = x.completed_at ]_vars

\* The bonus as the claim computes it: halves rounded up.
HalfUpBonus(sum) == 10 * ((sum + 100) \div 200)

\* The bonus with a half going to the even multiple of 10.
HalfEvenBonus(sum) ==
  IF sum % 200 = 100 THEN 20 * ((sum + 100) \div 400) ELSE 10 * ((sum + 100) \div 200)

\* What a finish call that commits leaves, given the bonus it should award:
\* the bonus is returned, and one goal_complete entry of that amount is
\* appended when it is positive, nothing otherwise.
FinishAwards(p, bonus) ==
  /\ resp'.bonus_xp = bonus
  /\ IF bonus > 0
     THEN \E e \in xp_log' :
            /\ xp_log' = xp_log \cup {e} /\ e \notin xp_log
            /\ e.reason = "goal_complete" /\ e.amount = bonus
            /\ e.user_id = req[p].user /\ e.goal_id = req[p].goal
     ELSE xp_log' = xp_log

\* C16 as stated: the bonus of a finish call is 5% of the goal's ledger XP
\* rounded to the nearest multiple of 10, halves up, and a goal_complete entry
\* of that amount is appended exactly when it is positive.
C16_BonusHalfUp ==
  [][ \A p \in Procs : Commits(p, "finish") =>
        FinishAwards(p, HalfUpBonus(GoalXp(req[p].user, req[p].goal))) ]_vars

\* C16 amended: the same, with an exact half (a sum of 100, 300, 500, ...)
\* rounded to the even multiple of 10, so that a sum of 100 gives 0.
C16_BonusHalfEven ==
  [][ \A p \in Procs : Commits(p, "finish") =>
        FinishAwards(p, HalfEvenBonus(GoalXp(req[p].user, req[p].goal))) ]_vars

\* A second finish call has been awarded a bonus, its sum including the
\* goal_complete entry of the first.
C16_Witness ==
  /\ resp.op = "finish" /\ resp.status = 200 /\ resp.bonus_xp = 10
  /\ Cardinality(GoalCompleteRows(resp.user, resp.goal)) = 2
  /\ GoalXp(resp.user, resp.goal) > 120

\* C17: a finish call awards a bonus, and appends an entry, only when the
\* goal's ledger XP exceeds 100; on the goal of one easy and one hard step,
\* both completed and reflected (60 XP), it returns bonus 0 and appends nothing.
C17_NoBonusUpTo100 ==
  [][ \A p \in Procs : Commits(p, "finish") =>
        LET sum == GoalXp(req[p].user, req[p].goal)
        IN  /\ (resp'.bonus_xp > 0 \/ xp_log' # xp_log) => sum > 100
            /\ (steps = ShortPlan /\ sum = 60) =>
                 (resp'.bonus_xp = 0 /\ xp_log' = xp_log) ]_vars

\* Finish has answered bonus 0 on the easy-and-hard goal with both steps
\* completed and reflected.
C17_Witness ==
  /\ resp.op = "finish" /\ resp.status = 200 /\ resp.bonus_xp = 0
  /\ steps = ShortPlan /\ GoalXp(resp.user, resp.goal) = 60
  /\ \A s \in steps : Completed(resp.user, s.id) /\ ReflectionRows(resp.user, s.id) # {}
  /\ GoalCompleteRows(resp.user, resp.goal) = {}

\* C18: the generator is called only for a goal that has no stored summary,
\* and a stored summary is never replaced.
C18_SummaryGeneratedOnce ==
  [][ /\ \A p \in Procs :
           (pc[p] = "summary" /\ pc'[p] = "commit") =>
              \A x \in GoalOf(req[p].user, req[p].goal) : x.completion_summary = None
      /\ \A x \in goals : x.completion_summary # None =>
           \A y \in goals' : y.id = x.id => y.completion_summary = x.completion_summary ]_vars

\* C19: when finish calls the generator, completed_at and the bonus entry are
\* already committed, and the step that stores the summary writes nothing else.
C19_CommitBeforeSummary ==
  [][ \A p \in Procs :
        /\ (pc[p] = "summary" /\ req[p].op = "finish" /\ pc'[p] = "commit") =>
             /\ \A x \in GoalOf(req[p].user, req[p].goal) : x.completed_at # None
             /\ sess[p].bonus > 0 =>
                  \E e \in GoalCompleteRows(req[p].user, req[p].goal) : e.amount = sess[p].bonus
        /\ Commits(p, "finish") =>
             /\ xp_log' = xp_log
             /\ \A x \in goals : \A y \in goals' :
                  y.id = x.id => y.completed_at = x.completed_at ]_vars

\* A plan the state machine can run on: at least one step, every step of a
\* known difficulty, positions positive and strictly increasing.
ValidPlan(plan) ==
  /\ Len(plan) >= 1
  /\ \A i \in 1..Len(plan) : plan[i].difficulty \in Difficulties /\ plan[i].position >= 1
  /\ \A i \in 1..Len(plan) : \A j \in 1..Len(plan) :
       i < j => plan[i].position < plan[j].position

\* C20: whatever the provider does, the plan generate_plan_for_goal hands
\* back, which the goal caches, is a valid non-empty ordered sequence, and a
\* confirmed goal has at least one step.
C20_PlanNeverEmpty ==
  \A x \in goals :
    /\ x.ai_plan # None => ValidPlan(x.ai_plan[1])
    /\ x.is_confirmed => StepsOfGoal(x.id) # {}


\* ---- level curve (C24..C27)
LevelAnswered == resp.op = "compute_level"

LevelFields(r) ==
  LevelResult(r.level, r.current_level_xp, r.next_level_xp, r.progress_to_next)

\* C24: compute_level_from_xp is a function of the total alone, the level it
\* returns lies in 1..60, and for non-negative totals X <= Y the level of X is
\* at most the level of Y.
C24_LevelMonotonic ==
  LevelAnswered =>
    /\ LevelFields(resp) = ComputeLevelFromXp(resp.total_xp)
    /\ resp.level \in 1 .. 60
    /\ \A y \in LevelInputs :
         (0 <= resp.total_xp /\ resp.total_xp <= y) =>
           resp.level <= ComputeLevelFromXp(y).level

\* A total in the middle of a level above the first has been computed.
C24_Witness ==
  LevelAnswered /\ resp.level > 1 /\ resp.level < 60 /\ resp.current_level_xp > 0

\* C25: a total of 0 gives (1, 0, 100, 0.0), a total of 100 gives
\* (2, 0, 110, 0.0), and a total that is exactly the sum of the first k
\* requirements (k < 59) gives level k + 1 with 0 XP into it and requirement
\* k + 1 as next_level_xp.
C25_ThresholdStartsLevel ==
  LevelAnswered =>
    /\ resp.total_xp = 0 => LevelFields(resp) = LevelResult(1, 0, 100, Quotient(0, 1))
    /\ resp.total_xp = 100 => LevelFields(resp) = LevelResult(2, 0, 110, Quotient(0, 1))
    /\ \A k \in 1 .. 58 :
         resp.total_xp = SumFirst(LEVEL_XP_REQUIREMENTS, k) =>
           LevelFields(resp) =
             LevelResult(k + 1, 0, LEVEL_XP_REQUIREMENTS[k + 1], Quotient(0, 1))

\* The level of a total of exactly 100 has been computed.
C25_Witness == LevelAnswered /\ resp.total_xp = 100 /\ resp.level = 2

\* C26: every total at or above XP_TO_REACH_MAX gives (60, 0, 0, 1.0), every
\* total below it a level below 60, and a negative total gives what 0 gives.
C26_MaxLevelIsFinal ==
  LevelAnswered =>
    /\ resp.total_xp >= XP_TO_REACH_MAX =>
         LevelFields(resp) = LevelResult(60, 0, 0, Quotient(1, 1))
    /\ resp.total_xp < XP_TO_REACH_MAX => resp.level < 60
    /\ resp.total_xp < 0 => LevelFields(resp) = LevelResult(1, 0, 100, Quotient(0, 1))

\* A total above XP_TO_REACH_MAX has been computed.
C26_Witness == LevelAnswered /\ resp.total_xp > XP_TO_REACH_MAX /\ resp.level = 60

\* e is a multiple of 10 nearest to prev * 1.10, and 10 at least.
NearestTen(prev, e) ==
  /\ e % 10 = 0 /\ e >= 10
  /\ 10 * e - 11 * prev <= 50 /\ 11 * prev - 10 * e <= 50

\* The rule of the requirement sequence: 59 positive entries, the first is
\* 100, each later one is the one before it times 1.10 to the nearest
\* multiple of 10, and next_level_xp of a level below 60 is that level's entry.
RequirementRule ==
  /\ Len(LEVEL_XP_REQUIREMENTS) = 59
  /\ \A i \in 1 .. Len(LEVEL_XP_REQUIREMENTS) : LEVEL_XP_REQUIREMENTS[i] > 0
  /\ LEVEL_XP_REQUIREMENTS[1] = 100
  /\ \A i \in 2 .. Len(LEVEL_XP_REQUIREMENTS) :
       NearestTen(LEVEL_XP_REQUIREMENTS[i - 1], LEVEL_XP_REQUIREMENTS[i])
  /\ (LevelAnswered /\ resp.level < 60) =>
       resp.next_level_xp = LEVEL_XP_REQUIREMENTS[resp.level]

C22_DeleteRemovesEverything ==
  [][(resp'.op = "delete_goal" /\ resp'.status = 204) =>
       /\ \A x \in goals' : x.id # resp'.goal
       /\ \A s \in steps' : s.goal_id # resp'.goal
       /\ \A r \in user_steps' : \A s \in steps : s.id = r.step_id => s.goal_id # resp'.goal
       /\ \A r \in reflections' : \A s \in steps : s.id = r.step_id => s.goal_id # resp'.goal
       /\ \A e \in xp_log' : e.goal_id # resp'.goal]_vars

\* C23: a successful confirm leaves none of the goal's former steps, no
\* progress row of any user on a step of the goal, and no progress row or
\* reflection on a step that does not exist.
C23_ConfirmResetsProgress ==
  [][(resp'.op = "confirm" /\ resp'.status = 200) =>
       /\ \A s \in steps : s.goal_id = resp'.goal => \A t \in steps' : t.id # s.id
       /\ \A t \in steps' : t.goal_id = resp'.goal =>
            \A u \in Users : RowsIn(user_steps', u, t.id) = {}
       /\ \A r \in user_steps' : \E t \in steps' : t.id = r.step_id
       /\ \A r \in reflections' : \E t \in steps' : t.id = r.step_id]_vars

\* A plan with a step has been confirmed again after XP was earned on a step
\* of the plan it replaces.
C23_Witness ==
  resp.op = "confirm" /\ resp.status = 200 /\ resp.steps # {} /\ StaleStepIds # {}

\* ---- progress summary (C28)
\* u has completed the easy step s and reflected on it, and has no other XP.
EasyStepOnly(u, s) ==
  /\ s.difficulty = "easy"
  /\ Completed(u, s.id) /\ ReflectionRows(u, s.id) # {}
  /\ \A e \in xp_log : e.user_id = u =>
       e.step_id = s.id /\ e.reason \in {"step_complete", "reflection"}

\* C28: get_user_progress and get_xp_summary report the sum of the user's
\* ledger amounts as total_xp and compute_level_from_xp of that sum as level,
\* current_level_xp and next_level_xp; for a user whose only XP comes from
\* completing one easy step and reflecting on it that is 15, 1, 15, 100.
C28_ProgressSummary ==
  resp.op \in {"user_progress", "xp_summary"} =>
    LET total == SumAmounts({e \in xp_log : e.user_id = resp.user})
        r == ComputeLevelFromXp(total)
    IN  /\ resp.total_xp = total
        /\ resp.level = r.level
        /\ resp.current_level_xp = r.current_level_xp
        /\ resp.next_level_xp = r.next_level_xp
        /\ (\E s \in steps : EasyStepOnly(resp.user, s)) =>
             /\ resp.total_xp = 15 /\ resp.level = 1
             /\ resp.current_level_xp = 15 /\ resp.next_level_xp = 100

\* The progress of a user who completed one easy step and reflected on it
\* has been read.
C28_Witness ==
  /\ resp.op = "user_progress" /\ resp.total_xp = 15
  /\ \E s \in steps : EasyStepOnly(resp.user, s)

\* ---- a goal fresh from create_goal (C29)
\* C29: a goal without a plan that is not confirmed is in its owner's
\* list_goals result, and get_goal returns it to its owner.
C29_NewGoalIsListed ==
  /\ resp.op = "list_goals" =>
       \A x \in goals :
         (x.user_id = resp.user /\ x.ai_plan = None /\ ~x.is_confirmed) =>
           \E l \in resp.goals : l.id = x.id
  /\ (resp.op = "get_goal" /\ GoalOf(resp.user, resp.goal) # {}) => resp.status = 200


\* ---- unknown difficulties (C30)
PlanAnswered == resp.op = "generate_plan"

\* The provider answered with a JSON list of objects.
ListOfObjects(out) ==
  /\ out.kind = "content" /\ out.content.json.kind = "list"
  /\ \A i \in 1 .. Len(out.content.json.items) : out.content.json.items[i].kind = "object"

\* One of the objects has a difficulty that is not easy, medium or hard.
HasUnknownDifficulty(out) ==
  \E i \in 1 .. Len(out.content.json.items) :
    out.content.json.items[i].difficulty \notin Difficulties

StepCalls == {"start", "complete", "reflect", "finish"}

\* The call names a goal that is not the caller's, or a step that is not a
\* step of the goal (finish names no step).
NotTheCallers(op, u, g, sid) ==
  \/ GoalOf(u, g) = {}
  \/ op # "finish" /\ StepOf(g, sid) = {}

\* The rows of a user in the four tables that carry a user.
RowsOfUser(u, gs, us, rf, xp) ==
  <<{x \in gs : x.user_id = u}, {r \in us : r.user_id = u},
    {r \in rf : r.user_id = u}, {e \in xp : e.user_id = u}>>

\* C31: a start, complete, reflect or finish call that names a goal that is
\* not the caller's, or a step that is not a step of that goal, is answered
\* 404 with every table left as it was and is never let through; and no step
\* of such a call changes a goal, progress row, reflection or ledger entry of
\* another user.
C31_NotFoundChangesNothing ==
  [][/\ (resp'.op \in StepCalls /\ pc = pc'
           /\ NotTheCallers(resp'.op, resp'.user, resp'.goal, resp'.step)) =>
          (resp'.status = 404 /\ UNCHANGED dbvars)
     /\ \A p \in Procs :
          (Admitted(p) /\ req'[p].op \in StepCalls) =>
            /\ GoalOf(req'[p].user, req'[p].goal) # {}
            /\ req'[p].op # "finish" => req'[p].step \in StepOf(req'[p].goal, req'[p].step.id)
     /\ \A p \in Procs :
          (pc[p] # "idle" /\ req[p].op \in StepCalls) =>
            \A v \in Users \ {req[p].user} :
              RowsOfUser(v, goals', user_steps', reflections', xp_log') =
                RowsOfUser(v, goals, user_steps, reflections, xp_log)]_vars

\* A call of another user on the owner's step, which has progress, has been
\* answered 404.
C31_Witness ==
  /\ resp.op = "complete" /\ resp.status = 404 /\ resp.user = "u2"
  /\ GoalOf("u1", resp.goal) # {} /\ StepOf(resp.goal, resp.step) # {}
  /\ UserStepRows("u1", resp.step) # {}

\* ---- the order check on a plan with gaps (C32)
\* The goal has a step at the position just below s that u has not completed.
ExactPredecessorIncomplete(u, s) ==
  \E t \in steps :
    t.goal_id = s.goal_id /\ t.position = s.position - 1 /\ ~Completed(u, t.id)

\* A start or complete call that found the goal and the step is answered.
OrderChecked == resp.op \in {"start", "complete"} /\ resp.status \in {200, 400}

\* C32 as stated: a start or complete call is refused with 400 exactly when
\* the goal has a step at position (step.position - 1) that the caller has
\* not completed; with no step at that position the call is let through.
C32_ExactPredecessorOnly ==
  OrderChecked =>
    \A s \in StepOf(resp.goal, resp.step) :
      resp.status = 400 <=> ExactPredecessorIncomplete(resp.user, s)

\* C32: a start or complete call is refused with 400 exactly when the goal
\* has a step at a smaller position and the caller has not completed the
\* one of them at the greatest position, whether or not the positions are
\* consecutive; a call on the step at the smallest position is let through.
C32_NearestPredecessor ==
  OrderChecked =>
    \A s \in StepOf(resp.goal, resp.step) :
      /\ resp.status = 400 <=> PrecedingIncomplete(resp.user, s)
      /\ (\A t \in steps : t.goal_id = s.goal_id => t.position >= s.position) =>
           resp.status = 200

\* A start call on the step at position 5 of the fallback plan, which has no
\* step at position 4, was refused while the caller had completed the step at
\* position 1 and not the step at position 2.
C32_Witness ==
  /\ resp.op = "start" /\ resp.status = 400
  /\ \E s \in StepOf(resp.goal, resp.step) :
       /\ s.position = 5
       /\ ~\E t \in steps : t.goal_id = s.goal_id /\ t.position = 4
       /\ \E t \in steps : t.goal_id = s.goal_id /\ t.position = 1 /\ Completed(resp.user, t.id)
       /\ \E t \in steps : t.goal_id = s.goal_id /\ t.position = 2 /\ ~Completed(resp.user, t.id)

\* ---- finishing again (C33)
\* The sum of a user's ledger entries tagged with a goal, bonuses included.
GoalXpWithBonuses(u, g) == SumAmounts({e \in xp_log : e.user_id = u /\ e.goal_id = g})

\* C33: finish has no guard against repetition.  A finish call is refused
\* with 400 only while a step of the goal is not completed, whatever the
\* goal's completed_at and the ledger hold; every finish call that succeeds
\* answers the bonus of the sum of all the caller's entries tagged with the
\* goal, the goal_complete entries of earlier finish calls included, and when
\* that bonus is positive it appends one more goal_complete entry of that
\* amount next to the ones already there.
C33_FinishRepeats ==
  [][ /\ (resp'.op = "finish" /\ resp'.status = 400) =>
           \E s \in StepsOfGoal(resp'.goal) : ~Completed(resp'.user, s.id)
      /\ \A p \in Procs : Commits(p, "finish") =>
           /\ resp'.status = 200
           /\ resp'.bonus_xp = GoalBonus(GoalXpWithBonuses(req[p].user, req[p].goal))
           /\ IF resp'.bonus_xp > 0
              THEN \E e \in xp_log' \ xp_log :
                     /\ xp_log' = xp_log \cup {e}
                     /\ e.reason = "goal_complete" /\ e.amount = resp'.bonus_xp
                     /\ e.user_id = req[p].user /\ e.goal_id = req[p].goal
              ELSE xp_log' = xp_log ]_vars

\* Two finish calls on the goal have succeeded: its step completions come to
\* 290 XP, the first call appended a bonus of 10 (290 / 200 rounds to 1) and
\* the second a bonus of 20 (300 / 200 is a half and rounds to the even 2),
\* where 290 would have given 10 again.
C33_Witness ==
  /\ resp.op = "finish" /\ resp.status = 200 /\ resp.bonus_xp = 20
  /\ SumAmounts({e \in xp_log : e.user_id = resp.user /\ e.goal_id = resp.goal
                                 /\ e.reason # "goal_complete"}) = 290
  /\ {e.amount : e \in GoalCompleteRows(resp.user, resp.goal)} = {10, 20}
  /\ Cardinality(GoalCompleteRows(resp.user, resp.goal)) = 2

\* ---- one progress record per user and step (C34)
\* C34: in every reachable state a (user, step) has at most one progress
\* record, also when start and complete calls on it overlap.
C34_OneRecordPerUserStep ==
  \A r1 \in user_steps, r2 \in user_steps :
    (r1.user_id = r2.user_id /\ r1.step_id = r2.step_id) => r1 = r2

\* ---- start again, complete without start (C35)
\* C35: with calls one after the other, a start call that succeeds on a
\* (user, step) whose record has started_at leaves the progress records as
\* they are; no start call appends a ledger entry; and a complete call that
\* succeeds on a (user, step) with no record creates exactly one record, of
\* that user and step, whose started_at and completed_at are the same instant.
C35_StartIdempotentCompleteStarts ==
  [][\A p \in Procs :
       /\ Commits(p, "start") =>
            /\ xp_log' = xp_log
            /\ (\E r \in UserStepRows(req[p].user, req[p].step.id) : r.started_at # None) =>
                 user_steps' = user_steps
       /\ (Commits(p, "complete") /\ UserStepRows(req[p].user, req[p].step.id) = {}) =>
            \E r \in user_steps' \ user_steps :
              /\ user_steps' = user_steps \cup {r}
              /\ r.user_id = req[p].user /\ r.step_id = req[p].step.id
              /\ r.started_at # None /\ r.started_at = r.completed_at ]_vars

\* A start call has succeeded, after the clock moved, on a step that a
\* complete call had completed at instant 0 with started_at the same
\* instant: the record still shows instant 0 and the ledger holds the
\* completion entry only.
C35_Witness ==
  /\ resp.op = "start" /\ resp.status = 200 /\ now = 1
  /\ \E r \in UserStepRows(resp.user, resp.step) :
       r.started_at = Some(0) /\ r.completed_at = Some(0)
  /\ Cardinality(UserStepRows(resp.user, resp.step)) = 1
  /\ \A e \in xp_log : e.reason = "step_complete"
  /\ xp_log # {}

\* ---- the cached plan and the Step rows (C36)
PlanCalls == {"generate", "regenerate"}

\* A plan call is answered by the step that admitted it, without the provider.
AnsweredAtOnce(op) == resp'.op = op /\ pc' = pc

\* C36: a generate call on a goal with a stored plan is answered with that
\* plan, the provider is not called and no table changes; a generate call
\* reaches the provider only for a goal without a stored plan; a regenerate
\* call on a goal of the caller always reaches the provider, and when it is
\* answered the goal's stored plan is the plan of the answer; no step of a
\* generate or regenerate call changes a Step row, a progress record, a
\* reflection or the ledger; and a confirm call on a goal of the caller with
\* no stored plan is answered 400 and changes no table.
C36_PlanCacheAndSteps ==
  [][ /\ (AnsweredAtOnce("generate") /\ resp'.status = 200) =>
           /\ \A x \in GoalOf(resp'.user, resp'.goal) : x.ai_plan = Some(resp'.steps)
           /\ UNCHANGED dbvars
      /\ \A p \in Procs :
           /\ (Admitted(p) /\ req'[p].op = "generate") =>
                \A x \in GoalOf(req'[p].user, req'[p].goal) : x.ai_plan = None
           /\ (pc[p] = "provider" /\ pc'[p] = "idle") =>
                /\ resp'.op = req[p].op /\ resp'.status = 200
                /\ \A x \in goals' : x.id = req[p].goal => x.ai_plan = Some(resp'.steps)
           /\ (pc[p] = "provider" \/ pc'[p] = "provider") =>
                UNCHANGED <<steps, user_steps, reflections, xp_log>>
      /\ AnsweredAtOnce("regenerate") =>
           (resp'.status = 404 /\ GoalOf(resp'.user, resp'.goal) = {})
      /\ resp'.op \in PlanCalls => UNCHANGED <<steps, user_steps, reflections, xp_log>>
      /\ (resp'.op = "confirm" /\ \E x \in GoalOf(resp'.user, resp'.goal) : x.ai_plan = None) =>
           (resp'.status = 400 /\ UNCHANGED dbvars) ]_vars

\* A regenerate call has been answered with a plan of one hard step and the
\* goal stores that plan, while the goal's Step rows are still the single
\* easy step and the caller's completed progress record on it is still there.
C36_Witness ==
  /\ resp.op = "regenerate" /\ resp.status = 200
  /\ Len(resp.steps) = 1 /\ resp.steps[1].difficulty = "hard"
  /\ \A x \in GoalOf(resp.user, resp.goal) : x.ai_plan = Some(resp.steps)
  /\ steps = SingleStep
  /\ \E r \in user_steps : r.user_id = resp.user /\ r.step_id = "s1" /\ r.completed_at # None

\* ---- reading the completion summary (C37)
\* The read of the summary, but for the summary being non-empty afterwards:
\* 400 and no change while completed_at is unset, the stored summary when
\* there is one, otherwise the generated one, stored and returned; the ledger
\* and completed_at as they were.
SummaryReadFrame ==
  /\ (resp'.op = "summary" /\ \E x \in GoalOf(resp'.user, resp'.goal) : x.completed_at = None) =>
       (resp'.status = 400 /\ UNCHANGED dbvars)
  /\ (resp'.op = "summary" /\ resp'.status = 400) =>
       \E x \in GoalOf(resp'.user, resp'.goal) : x.completed_at = None
  /\ (resp'.op = "summary" /\ resp'.status = 200 /\ pc' = pc) =>
       /\ \E x \in GoalOf(resp'.user, resp'.goal) :
            HasSummary(x) /\ x.completion_summary = Some(resp'.summary_text)
       /\ UNCHANGED dbvars
  /\ \A p \in Procs : Commits(p, "summary") =>
       /\ resp'.status = 200
       /\ \A x \in GoalOf(req[p].user, req[p].goal) : ~HasSummary(x)
       /\ \A x \in goals' : x.id = req[p].goal =>
            x.completion_summary = Some(resp'.summary_text)
  /\ (resp'.op = "summary" \/ \E p \in Procs : req[p].op = "summary" \/ req'[p].op = "summary") =>
       /\ xp_log' = xp_log
       /\ {<<x.id, x.completed_at>> : x \in goals'} = {<<x.id, x.completed_at>> : x \in goals}

\* C37: a read of the completion summary is answered 400 and changes
\* nothing while the goal's completed_at is unset; for a completed goal it
\* returns the stored summary when one is stored and otherwise generates one,
\* stores it and returns it; after every read answered 200 the goal has a
\* stored summary that is not empty, and the ledger and completed_at are as
\* they were.
C37_SummaryRead ==
  [][ /\ SummaryReadFrame
      /\ (resp'.op = "summary" /\ resp'.status = 200) =>
           \A x \in goals' : x.id = resp'.goal =>
             (x.completion_summary # None /\ x.completion_summary[1].text # "") ]_vars

\* What holds of the read whatever the provider answers.
C37_ReadFrameOnly == [][SummaryReadFrame]_vars

\* ---- the level as a decomposition of the total (C38)
\* C38: for every total X with 0 <= X < XP_TO_REACH_MAX, the answer
\* (level, cur, next, _) of compute_level_from_xp has next equal to the
\* requirement entry of the level, 0 <= cur < next, and the first level - 1
\* requirement entries and cur add up to X.
C38_LevelDecomposesTotal ==
  (LevelAnswered /\ 0 <= resp.total_xp /\ resp.total_xp < XP_TO_REACH_MAX) =>
    /\ resp.level \in 1 .. Len(LEVEL_XP_REQUIREMENTS)
    /\ resp.next_level_xp = LEVEL_XP_REQUIREMENTS[resp.level]
    /\ 0 <= resp.current_level_xp /\ resp.current_level_xp < resp.next_level_xp
    /\ SumFirst(LEVEL_XP_REQUIREMENTS, resp.level - 1) + resp.current_level_xp = resp.total_xp

\* The level of a total one short of the threshold of level 59 has been
\* computed: level 58, with all but one XP of its requirement.
C38_Witness ==
  /\ LevelAnswered /\ resp.level = 58
  /\ resp.total_xp = SumFirst(LEVEL_XP_REQUIREMENTS, 58) - 1
  /\ resp.current_level_xp = resp.next_level_xp - 1

\* ---- the ledger only grows (C39)
LedgerReasons == {"reflection", "step_complete", "goal_complete"}

\* The total XP of a user in a ledger, and the level it gives.
TotalIn(log, u) == SumAmounts({e \in log : e.user_id = u})

LevelIn(log, u) == ComputeLevelFromXp(TotalIn(log, u)).level

====
